---- MODULE Spec2Model ----
(***************************************************************************)
(* routermonitor: the DHCP client inventory kept in a SQLite table and     *)
(* reconciled against the DHCP server's lease list (routermonitor.py).     *)
(*                                                                         *)
(* One process at a time runs the tool: cli() parses the arguments,        *)
(* db_connect() opens the database (and bootstraps the table), then        *)
(* main() performs one operation and exits, or service() loops.  Each      *)
(* action below is one handler of the program, executed as a whole.        *)
(*                                                                         *)
(* The database is modelled with its transaction: `disk' is the committed  *)
(* table, `db' is the table as seen through the process's connection       *)
(* (committed rows plus the uncommitted INSERT/UPDATEs of the connection). *)
(***************************************************************************)
EXTENDS Integers, Sequences, FiniteSets, TLC

VARIABLES
    disk,       \* the committed table: [exists, rows]
    db,         \* the connection's view of the table: [exists, rows]
    pc,         \* "off": no process runs; "service": a process is in service()'s loop
    exit_code,  \* exit code of the last process, RUNNING while one runs
    leases,     \* the DHCP server's lease table: MAC -> lease or NoLease
    cfg,        \* the loaded configuration (DHCP_SERVER_TYPE)
    now,        \* time.time()
    changes,    \* how often the lease table has changed
    last,       \* outcome of do_update if it was the last thing to happen, else "none"
    events,     \* change events of the most recent do_update: MAC -> kind -> count
    procs,      \* two instances on one database file, each at a statement of do_update
    writer,     \* the instance whose connection holds the database's write lock
    lookups,    \* requests sent to the vendor service per MAC since its last deletion
    gate,       \* one process's calls of lookup_MAC: clock, next_lookup, requests sent
    svc,        \* service()'s loop: clock, next_run, the cfg dictionary, the config file
    op,         \* the last run of the tool: its command, arguments, store before and after
    fetch,      \* one get_dhcp_clients: what the server sent and what was made of it
    conf,       \* funcs3's cfg dictionary, _config_timestamp, the config file, the last call
    lock        \* funcs3's lock file, the clock, and two processes in requestlock/releaselock

vars == <<disk, db, pc, exit_code, leases, cfg, now, changes, last, events, procs, writer,
          lookups, gate, svc, op, fetch, conf, lock>>

\* What the one-process-at-a-time behaviours leave alone.
apart == <<procs, writer, gate, svc, op, fetch, conf, lock>>

-----------------------------------------------------------------------------
(* Bounds and value sets *)

\* Every run of the tool and every turn of the service loop takes one unit of
\* time; the model follows the clock from 1 to MaxTime.
MaxTime == 4
\* The number of times the DHCP server changes its lease table.
MaxChanges == 1

EXIT_GOOD == 0
EXIT_FAIL == 1
\* exit_code while a process is running
RUNNING == EXIT_GOOD - 1

MACS == {"aa:bb:cc:00:01:02", "aa:bb:cc:00:01:03"}

\* Python's None object (a table cell with no text), distinct from the text "None".
PyNone == "<NoneType>"

Hostnames == {"old", "new"}
IPs == {"192.168.1.5", "192.168.1.6"}
\* lease expiry on the server, seconds since the epoch; 0 is a static lease
Expiries == {0, 100}

NoLease == [present |-> FALSE]
Lease == [present : {TRUE}, hostname : Hostnames \cup {PyNone}, IP : IPs, expiry : Expiries]

\* The leases the server may hold for a MAC.  The first MAC's leases differ from
\* one another in one field, in two, or in all three, and one has a blank Hostname
\* cell; the second MAC keeps its address and its name.
FirstMAC == "aa:bb:cc:00:01:02"
Differing(l, k) ==
    {f \in {"hostname", "IP", "expiry"} : l[f] # k[f]}
BaseLease == [present |-> TRUE, hostname |-> "old", IP |-> "192.168.1.5", expiry |-> 100]
LeasesOf(m) ==
    IF m = FirstMAC
    THEN {l \in Lease :
            IF l.hostname = PyNone THEN Cardinality(Differing(l, BaseLease)) = 1
            ELSE Cardinality(Differing(l, BaseLease)) # 2}
    ELSE {l \in Lease : l.hostname = "old" /\ l.IP = "192.168.1.6" /\ l.expiry = 0}

\* The states of the server's lease table.
LeaseTables == {ls \in [MACS -> Lease \cup {NoLease}] : \A m \in MACS : ls[m] \in LeasesOf(m) \cup {NoLease}}

Kinds == {"new", "hostname", "IP", "expiry"}
\* The warning "snd_notif error" that do_update logs for a client.
Warnings == {"unsent"}

-----------------------------------------------------------------------------
(* The SQLite table *)

\* db_fields: MAC, hostname, notes, first_seen, expiry, IP, MACOUI.  The table has
\* no key: it may hold several rows of one MAC.  rows[m] are the rows whose MAC is
\* m, in the order of their insertion.
NoRows == [m \in MACS |-> <<>>]
EmptyTable == [exists |-> TRUE, rows |-> NoRows]
NoTable == [exists |-> FALSE, rows |-> NoRows]

\* SELECT * FROM table WHERE MAC = mac
SelectMac(rows, mac) == IF mac \in MACS THEN rows[mac] ELSE <<>>

\* INSERT INTO table (...) VALUES (...)
SqlInsert(rows, row) == [rows EXCEPT ![row.MAC] = Append(@, row)]

\* The UPDATE without its WHERE clause: every row of the table is set.
SqlUpdate_nowhere(rows, mac, field, val) ==
    [m \in MACS |-> [i \in DOMAIN rows[m] |-> [rows[m][i] EXCEPT ![field] = val]]]

\* UPDATE table SET field = val WHERE MAC = mac
SqlUpdate(rows, mac, field, val) ==
    LET old == rows[mac]
    IN [rows EXCEPT ![mac] = [i \in DOMAIN old |-> [old[i] EXCEPT ![field] = val]]]

\* DELETE FROM table WHERE MAC = mac
SqlDelete(rows, mac) == [rows EXCEPT ![mac] = <<>>]

\* str.format() of a Python value into a quoted SQL text literal: None becomes 'None'.
SqlText(v) == IF v = PyNone THEN "None" ELSE v

\* A Python number: an int, or a float (datetime.timestamp()).
PyInt(n) == [v |-> n, float |-> FALSE]
PyFloat(n) == [v |-> n, float |-> TRUE]

\* A number formatted into the statement and stored in an INT column: INTEGER
\* affinity stores an integral REAL ("100.0") and numeric text ('100') as INTEGER.
SqlInt(x) == x.v

\* Python's != between a snapshot value and a value read from the database
PyNeText(a, b) == a # b
\* The comparison of the expiry as text with the stored number: never equal.
PyNeNum_text(x, n) == TRUE
PyNeNum(x, n) == x.v # n

-----------------------------------------------------------------------------
(* The DHCP source: scrape_pfsense_dhcp and get_dhcp_clients *)

\* What the server answers to one fetch.
PfResponses == {"ok", "unreachable", "no_token", "login_failed"}
DdwrtResponses == {"ok", "ssh_failed", "run_raises"}
Responses == PfResponses \cup DdwrtResponses

ServerTypes == {"pfSense", "dd-wrt", "edgerouter"}

\* str.lower() on the configured DHCP_SERVER_TYPE
Lower(s) == CASE s = "pfSense" -> "pfsense" [] OTHER -> s

Present(ls) == {m \in MACS : ls[m].present}

\* The orders in which the server may list the leases it holds.
Orders(S) == {o \in UNION {[1..n -> S] : n \in {Cardinality(S)}} :
                 \A i, j \in DOMAIN o : i # j => o[i] # o[j]}

\* The pfSense status page renders a static lease's End as "n/a".
PfEnd(e) == IF e = 0 THEN "n/a" ELSE "1970/01/01 00:01:40"

\* The header row of the lease table, <th> by <th>: the columns the tool reads.
headers == <<"IP address", "MAC address", "Hostname", "End">>

\* One row of the pfSense lease table, <td> by <td>: node.text of each cell (None
\* when the cell holds no text).
PfRow(m, l) == <<l.IP, m, l.hostname, PfEnd(l.expiry)>>

\* str.strip() of a cell's text
Strip(s) == CASE s = " " -> "" [] OTHER -> s

\* row_dict of one <tr>: header name -> node.text, stripped unless it is None; a
\* row with fewer cells than headers has no item for the last headers.
row_dict(row) ==
    LET header_index(h) == CHOOSE i \in DOMAIN row : headers[i] = h
    IN [h \in {headers[i] : i \in DOMAIN row} |->
          LET item_text == row[header_index(h)]
          IN IF item_text # PyNone THEN Strip(item_text) ELSE item_text]

\* least_list: one row_dict per <tr> of the table body, in page order.
least_list(rows) == [i \in DOMAIN rows |-> row_dict(rows[i])]

\* datetime.strptime(End, PF_DATE_FORMAT).timestamp()
Strptime(s) == CASE s = "1970/01/01 00:01:40" -> PyFloat(100)

\* scrape_pfsense_dhcp: sys.exit when the first GET raises; an exception when the
\* page holds no csrfMagicToken (csrf is None) or no <tr> (tr_elements[0]);
\* otherwise the list of row_dicts.
scrape_pfsense_dhcp(resp, order, ls) ==
    CASE resp = "unreachable" -> [kind |-> "exit", list |-> <<>>]
      [] resp \in {"no_token", "login_failed"} -> [kind |-> "raise", list |-> <<>>]
      [] OTHER -> [kind |-> "return",
                   list |-> least_list([i \in DOMAIN order |->
                                          PfRow(order[i], ls[order[i]])])]

\* The dd-wrt lease file: "<expiry-epoch> <mac> <ip> <hostname> <id>", one line per
\* lease, here as its fields; a lease without a hostname gives an empty field.
Digits(n) == CASE n = 0 -> "0" [] n = 100 -> "100"
IntOf(s) == CASE s = "0" -> 0 [] s = "100" -> 100
DdwrtLine(m, l) ==
    <<Digits(l.expiry), m, l.IP, IF l.hostname = PyNone THEN "" ELSE l.hostname>>

\* The other spelling of a hardware address: upper-case hex digits.
UpperCase(m) == CASE m = "aa:bb:cc:00:01:02" -> "AA:BB:CC:00:01:02"
                  [] m = "aa:bb:cc:00:01:03" -> "AA:BB:CC:00:01:03"

\* line_re.match(line): ([\d]+) ([\dabcdef:]+) ([\d.]+) ([\S]+) on the fields of
\* the line: digits, lower-case hex digits and colons, digits and dots, and a
\* non-empty word.
LineReMatch(line) ==
    /\ Len(line) >= 4
    /\ line[1] \in {Digits(e) : e \in Expiries}
    /\ line[2] \in MACS
    /\ line[3] \in IPs
    /\ line[4] # ""

\* subprocess.run(ssh ... cat leases).stdout.split("\n"): no line when ssh fails
\* (empty stdout) or when run() raises (the except leaves clients = "").
DdwrtLines(resp, order, ls) ==
    IF resp = "ok" THEN [i \in DOMAIN order |-> DdwrtLine(order[i], ls[order[i]])]
    ELSE <<>>

\* clients_list built from the rows in order: keys in insertion order, and the record
\* of each key.
RECURSIVE PfClients(_, _)
PfClients(list, acc) ==
    IF list = <<>> THEN acc
    ELSE LET row == Head(list)
             expiry_timestamp == IF row["End"] = "n/a" THEN PyInt(0)
                                 ELSE Strptime(row["End"])
             mac == row["MAC address"]
             rec == [hostname |-> row["Hostname"], IP |-> row["IP address"],
                     expiry |-> expiry_timestamp]
         IN PfClients(Tail(list),
               [keys |-> IF mac \in DOMAIN acc.recs THEN acc.keys
                         ELSE Append(acc.keys, mac),
                recs |-> (mac :> rec) @@ acc.recs])

\* The loop over the lines, were it to end at the first line that does not match.
RECURSIVE DdwrtClients_strict(_, _)
DdwrtClients_strict(lines, acc) ==
    IF lines = <<>> THEN acc
    ELSE LET xx == Head(lines)
         IN IF LineReMatch(xx)
            THEN DdwrtClients_strict(Tail(lines),
                   [keys |-> IF xx[2] \in DOMAIN acc.recs THEN acc.keys
                             ELSE Append(acc.keys, xx[2]),
                    recs |-> (xx[2] :> [hostname |-> xx[4], IP |-> xx[3],
                                        expiry |-> PyInt(IntOf(xx[1]))]) @@ acc.recs])
            ELSE acc

RECURSIVE DdwrtClients(_, _)
DdwrtClients(lines, acc) ==
    IF lines = <<>> THEN acc
    ELSE LET xx == Head(lines)
         IN IF LineReMatch(xx)
            THEN DdwrtClients(Tail(lines),
                   [keys |-> IF xx[2] \in DOMAIN acc.recs THEN acc.keys
                             ELSE Append(acc.keys, xx[2]),
                    recs |-> (xx[2] :> [hostname |-> xx[4], IP |-> xx[3],
                                        expiry |-> PyInt(IntOf(xx[1]))]) @@ acc.recs])
            ELSE DdwrtClients(Tail(lines), acc)

NoClients == [keys |-> <<>>, recs |-> <<>>]

\* The loop over pf_clients raises on a row without an "End" item (KeyError), with
\* an End that is None (TypeError in strptime) or not a date (ValueError), and on
\* a row without one of the other three items (KeyError).
PfRaises(list) ==
    \E i \in DOMAIN list :
        \/ \E j \in DOMAIN headers : headers[j] \notin DOMAIN list[i]
        \/ list[i]["End"] \notin {PfEnd(e) : e \in Expiries}

\* get_dhcp_clients' loop over the rows the scraper returned.
pf_clients_list(list) ==
    IF PfRaises(list) THEN [kind |-> "raise", clients |-> NoClients]
    ELSE [kind |-> "return", clients |-> PfClients(list, NoClients)]

\* get_dhcp_clients: kind "return" with clients_list, "raise" for an exception,
\* "exit" for sys.exit / cleanup(EXIT_FAIL).
get_dhcp_clients(type, resp, order, ls) ==
    IF Lower(type) = "pfsense" THEN
        LET pf_clients == scrape_pfsense_dhcp(resp, order, ls)
        IN IF pf_clients.kind = "return"
           THEN pf_clients_list(pf_clients.list)
           ELSE [kind |-> pf_clients.kind, clients |-> NoClients]
    ELSE IF Lower(type) = "dd-wrt" THEN
        [kind |-> "return", clients |-> DdwrtClients(DdwrtLines(resp, order, ls), NoClients)]
    ELSE [kind |-> "exit", clients |-> NoClients]

\* The answers a server of the configured type can give.
ResponsesOf(type) ==
    IF Lower(type) = "pfsense" THEN PfResponses
    ELSE IF Lower(type) = "dd-wrt" THEN DdwrtResponses
    ELSE {"ok"}

-----------------------------------------------------------------------------
(* The inventory: get_database_clients, lookup_MAC, db_add_client, do_update *)

\* get_database_clients: a dictionary keyed by MAC; a later row of the same MAC
\* overwrites an earlier one.
get_database_clients(rows) ==
    [m \in {x \in MACS : rows[x] # <<>>} |->
        LET row == rows[m][Len(rows[m])]
        IN [hostname |-> row.hostname, IP |-> row.IP, expiry |-> row.expiry,
            first_seen |-> row.first_seen, notes |-> row.notes, MACOUI |-> row.MACOUI]]

\* What api.macvendors.com does with one request: status 200 with the vendor's
\* name, another status, or no answer at all (requests.get raises).
Answers == {"200", "404", "raise"}
VendorText == "Acme Corp"

\* What the outside does for a new client when, after the vendor service has
\* answered, the mail server fails and snd_notif raises SndEmailError.
MailFails == {"200, unsent", "404, unsent"}
Status(answer) == CASE answer = "200, unsent" -> "200"
                    [] answer = "404, unsent" -> "404"
                    [] OTHER -> answer

\* snd_notif: snd_email raises when the message cannot be sent.
snd_notif(answer) == [raised |-> answer \in MailFails]

\* lookup_MAC: "--none--" unless the status is 200; an exception of requests.get
\* is not handled here.
lookup_MAC(MAC, answer) ==
    IF Status(answer) = "raise" THEN [raised |-> TRUE, macoui |-> "--none--"]
    ELSE [raised |-> FALSE,
          macoui |-> IF Status(answer) = "200" THEN VendorText ELSE "--none--"]

\* db_add_client with the INSERT written before the lookup has answered: the row
\* goes in with an empty vendor.
db_add_client_blank(rows, MAC, record, answer, t) ==
    LET lk == lookup_MAC(MAC, answer)
    IN IF lk.raised THEN [raised |-> TRUE, rows |-> rows, macoui |-> lk.macoui]
       ELSE [raised |-> FALSE,
             rows |-> SqlInsert(rows, [MAC |-> MAC, MACOUI |-> "",
                                       hostname |-> SqlText(record.hostname),
                                       notes |-> "-", first_seen |-> t,
                                       IP |-> SqlText(record.IP),
                                       expiry |-> SqlInt(record.expiry)]),
             macoui |-> lk.macoui]

\* db_add_client: the lookup, then the INSERT with notes "-" and first_seen
\* time.time().
db_add_client(rows, MAC, record, answer, t) ==
    LET lk == lookup_MAC(MAC, answer)
    IN IF lk.raised THEN [raised |-> TRUE, rows |-> rows, macoui |-> lk.macoui]
       ELSE [raised |-> FALSE,
             rows |-> SqlInsert(rows, [MAC |-> MAC, MACOUI |-> lk.macoui,
                                       hostname |-> SqlText(record.hostname),
                                       notes |-> "-", first_seen |-> t,
                                       IP |-> SqlText(record.IP),
                                       expiry |-> SqlInt(record.expiry)]),
             macoui |-> lk.macoui]

NoEvents == [m \in MACS |-> [k \in Kinds \cup Warnings |-> 0]]
Emit(ev, m, k) == [ev EXCEPT ![m][k] = @ + 1]

\* The notification of a new client: snd_notif is called, and its exception is
\* caught and logged as a warning.
Notify(ev, m, answer) ==
    IF snd_notif(answer).raised THEN Emit(Emit(ev, m, "new"), m, "unsent")
    ELSE Emit(ev, m, "new")

\* The loop body with a hostname change written by replacing the row, which stamps
\* it anew.
UpdateOne_replace(MAC, rec, database_clients, answer, t, st) ==
    IF MAC \notin DOMAIN database_clients THEN
        LET add == db_add_client(st.rows, MAC, rec, answer, t)
        IN IF add.raised THEN [st EXCEPT !.raised = TRUE]
           ELSE [rows |-> add.rows, events |-> Emit(st.events, MAC, "new"),
                 raised |-> FALSE]
    ELSE
        LET old == database_clients[MAC]
            s1 == IF PyNeText(rec.hostname, old.hostname)
                  THEN [st EXCEPT !.rows = SqlUpdate(SqlUpdate(@, MAC, "hostname",
                                                               SqlText(rec.hostname)),
                                                     MAC, "first_seen", t),
                                  !.events = Emit(@, MAC, "hostname")]
                  ELSE st
            s2 == IF PyNeText(rec.IP, old.IP)
                  THEN [s1 EXCEPT !.rows = SqlUpdate(@, MAC, "IP", SqlText(rec.IP)),
                                  !.events = Emit(@, MAC, "IP")]
                  ELSE s1
            s3 == IF PyNeNum(rec.expiry, old.expiry)
                  THEN [s2 EXCEPT !.rows = SqlUpdate(@, MAC, "expiry", SqlInt(rec.expiry)),
                                  !.events = Emit(@, MAC, "expiry")]
                  ELSE s2
        IN s3

\* The loop body with no notification for a new client.
UpdateOne_quiet(MAC, rec, database_clients, answer, t, st) ==
    IF MAC \notin DOMAIN database_clients THEN
        LET add == db_add_client(st.rows, MAC, rec, answer, t)
        IN IF add.raised THEN [st EXCEPT !.raised = TRUE]
           ELSE [rows |-> add.rows, events |-> st.events, raised |-> FALSE]
    ELSE
        LET old == database_clients[MAC]
            s1 == IF PyNeText(rec.hostname, old.hostname)
                  THEN [st EXCEPT !.rows = SqlUpdate(@, MAC, "hostname", SqlText(rec.hostname)),
                                  !.events = Emit(@, MAC, "hostname")]
                  ELSE st
            s2 == IF PyNeText(rec.IP, old.IP)
                  THEN [s1 EXCEPT !.rows = SqlUpdate(@, MAC, "IP", SqlText(rec.IP)),
                                  !.events = Emit(@, MAC, "IP")]
                  ELSE s1
            s3 == IF PyNeNum(rec.expiry, old.expiry)
                  THEN [s2 EXCEPT !.rows = SqlUpdate(@, MAC, "expiry", SqlInt(rec.expiry)),
                                  !.events = Emit(@, MAC, "expiry")]
                  ELSE s2
        IN s3

\* The loop body without the test "MAC not in database_clients": every client of
\* the snapshot is added.
UpdateOne_add(MAC, rec, database_clients, answer, t, st) ==
    LET add == db_add_client(st.rows, MAC, rec, answer, t)
    IN IF add.raised THEN [st EXCEPT !.raised = TRUE]
       ELSE [rows |-> add.rows, events |-> Emit(st.events, MAC, "new"),
             raised |-> FALSE]

\* The body of do_update's loop for one MAC of dhcp_clients.  st is the state of
\* the call: the connection's rows, the events so far, and whether an exception
\* has left the loop.
UpdateOne(MAC, rec, database_clients, answer, t, st) ==
    IF MAC \notin DOMAIN database_clients THEN
        LET add == db_add_client(st.rows, MAC, rec, answer, t)
        IN IF add.raised THEN [st EXCEPT !.raised = TRUE]
           ELSE [rows |-> add.rows, events |-> Notify(st.events, MAC, answer),
                 raised |-> FALSE]
    ELSE
        LET old == database_clients[MAC]
            s1 == IF PyNeText(rec.hostname, old.hostname)
                  THEN [st EXCEPT !.rows = SqlUpdate(@, MAC, "hostname", SqlText(rec.hostname)),
                                  !.events = Emit(@, MAC, "hostname")]
                  ELSE st
            s2 == IF PyNeText(rec.IP, old.IP)
                  THEN [s1 EXCEPT !.rows = SqlUpdate(@, MAC, "IP", SqlText(rec.IP)),
                                  !.events = Emit(@, MAC, "IP")]
                  ELSE s1
            s3 == IF PyNeNum(rec.expiry, old.expiry)
                  THEN [s2 EXCEPT !.rows = SqlUpdate(@, MAC, "expiry", SqlInt(rec.expiry)),
                                  !.events = Emit(@, MAC, "expiry")]
                  ELSE s2
        IN s3

\* for MAC in dhcp_clients: ... ; an exception ends the loop.
RECURSIVE UpdateLoop(_, _, _, _, _, _)
UpdateLoop(keys, recs, database_clients, answers, t, st) ==
    IF keys = <<>> \/ st.raised THEN st
    ELSE UpdateLoop(Tail(keys), recs, database_clients, answers, t,
                    UpdateOne(Head(keys), recs[Head(keys)], database_clients,
                              answers[Head(keys)], t, st))

\* The calls of snd_notif that do_update makes for the events ev of a run: one for
\* each new client, inside the loop; a changed field is reported by logging.info
\* only.
EngineNotifs(ev) == [m \in MACS |-> [k \in Kinds |-> IF k = "new" THEN ev[m][k] ELSE 0]]

\* The calls of snd_notif that main and service make after do_update has returned:
\* do_update returns nothing and they make none.
CallerNotifs(ev) == [m \in MACS |-> [k \in Kinds |-> 0]]

SourceFailed == {"fetch_exit", "fetch_raised", "fetch_empty"}
Outcomes == {"committed", "aborted"} \cup SourceFailed

\* do_update on the connection's rows.  The result: the rows afterwards, whether
\* commit() was reached, whether the process exits (SystemExit is no Exception and
\* passes the except clause), the events, and the outcome:
\*   "fetch_exit"    the source adapter ended the process,
\*   "fetch_raised"  the source adapter raised, caught and logged,
\*   "fetch_empty"   the source failed and returned no client, processed and committed,
\*   "aborted"       an exception in the loop, caught and logged, no commit,
\*   "committed"     the loop and the commit were done.
do_update(rows, type, resp, order, ls, answers, t) ==
    LET dhcp == get_dhcp_clients(type, resp, order, ls)
        database_clients == get_database_clients(rows)
        st == UpdateLoop(dhcp.clients.keys, dhcp.clients.recs, database_clients,
                         answers, t,
                         [rows |-> rows, events |-> NoEvents, raised |-> FALSE])
    IN CASE dhcp.kind = "exit" ->
              [rows |-> rows, commit |-> FALSE, exit |-> TRUE, events |-> NoEvents,
               out |-> "fetch_exit"]
         [] dhcp.kind = "raise" ->
              [rows |-> rows, commit |-> FALSE, exit |-> FALSE, events |-> NoEvents,
               out |-> "fetch_raised"]
         [] OTHER ->
              [rows |-> st.rows, commit |-> ~st.raised, exit |-> FALSE,
               events |-> st.events,
               out |-> IF st.raised THEN "aborted"
                       ELSE IF resp # "ok" THEN "fetch_empty" ELSE "committed"]

-----------------------------------------------------------------------------
(* The process *)

\* --note text, note.replace("'", "''"), and the text a quoted SQL literal stands for
Notes == {"kid's tablet"}
Doubled(s) == CASE s = "kid's tablet" -> "kid''s tablet" [] OTHER -> s
SqlLiteral(s) == CASE s = "kid''s tablet" -> "kid's tablet" [] OTHER -> s

\* The two instances of the tool that may run at once: the service loop and a
\* one-shot --update.
Procs == {"service", "update"}
NoProc == "none"
Quiet == [pc |-> "off", keys |-> <<>>, recs |-> <<>>, dbc |-> <<>>, runs |-> 0, why |-> "none"]

\* The MACs for which a loop over keys calls lookup_MAC: those without an entry, up
\* to the one at which an exception leaves the loop.
Asked(keys, known, stops) ==
    {keys[i] : i \in {k \in DOMAIN keys :
                        /\ keys[k] \notin known
                        /\ \A j \in 1..(k - 1) : keys[j] \notin stops}}

\* The requests sent to the vendor service for each MAC since its entry was last
\* deleted (counted up to MaxLookups).
MaxLookups == 2
NoLookups == [m \in MACS |-> 0]
Count(n, S) == [m \in MACS |-> IF m \in S /\ n[m] < MaxLookups THEN n[m] + 1 ELSE n[m]]
InRows(rows) == {m \in MACS : rows[m] # <<>>}

\* The lookups of a do_update that has the clients dhcp and the entries of rows.
UpdateAsked(dhcp, rows, answers) ==
    IF dhcp.kind # "return" THEN {}
    ELSE Asked(dhcp.clients.keys, InRows(rows),
               {m \in MACS : m \notin InRows(rows) /\ answers[m] = "raise"})

\* The lookups of db_connect's loop, which an exception of the lookup or of the log
\* line ends.
CreateAsked(dhcp, answers) ==
    IF dhcp.kind # "return" THEN {}
    ELSE Asked(dhcp.clients.keys, {},
               {m \in DOMAIN dhcp.clients.recs :
                   \/ answers[m] = "raise"
                   \/ dhcp.clients.recs[m].hostname = PyNone
                   \/ dhcp.clients.recs[m].IP = PyNone})

\* main's branch for --note with the note put into the statement as it is: a quote
\* in it ends the literal and the statement fails.
add_note_plain(table, MAC, note) ==
    LET clients == SelectMac(table.rows, MAC)
    IN IF MAC = PyNone THEN [code |-> EXIT_FAIL, table |-> table]
       ELSE IF Len(clients) = 1 /\ Doubled(note) = note
       THEN [code |-> EXIT_GOOD,
             table |-> [table EXCEPT !.rows = SqlUpdate(@, MAC, "notes", note)]]
       ELSE [code |-> EXIT_FAIL, table |-> table]

\* main's branch for --note: the note with its quotes doubled goes into the UPDATE
\* of the one row found; no --MAC, no row or several rows end in cleanup(EXIT_FAIL).
add_note(table, MAC, note) ==
    LET clients == SelectMac(table.rows, MAC)
        new_note == Doubled(note)
    IN IF MAC = PyNone THEN [code |-> EXIT_FAIL, table |-> table]
       ELSE IF Len(clients) = 1
       THEN [code |-> EXIT_GOOD,
             table |-> [table EXCEPT
                          !.rows = SqlUpdate(@, MAC, "notes", SqlLiteral(new_note))]]
       ELSE [code |-> EXIT_FAIL, table |-> table]

\* main's branch for --delete with a DELETE that has no WHERE clause.
delete_client_all(table, MAC) ==
    LET clients == SelectMac(table.rows, MAC)
    IN IF MAC = PyNone THEN [code |-> EXIT_FAIL, table |-> table]
       ELSE IF Len(clients) = 1
       THEN [code |-> EXIT_GOOD, table |-> [table EXCEPT !.rows = NoRows]]
       ELSE [code |-> EXIT_FAIL, table |-> table]

\* main's branch for --delete
delete_client(table, MAC) ==
    LET clients == SelectMac(table.rows, MAC)
    IN IF MAC = PyNone THEN [code |-> EXIT_FAIL, table |-> table]
       ELSE IF Len(clients) = 1
       THEN [code |-> EXIT_GOOD, table |-> [table EXCEPT !.rows = SqlDelete(@, MAC)]]
       ELSE [code |-> EXIT_FAIL, table |-> table]

\* No get_dhcp_clients followed cell by cell.
Unfetched == [sent |-> <<>>, kind |-> "none", list |-> <<>>, keys |-> <<>>, recs |-> <<>>]

\* requestlock's timeout argument and the end of the clock, in tenths of a second
\* (time.sleep(0.1) is one tick).
LockTimeout == 2
MaxTicks == 5

\* No lock file, and no process in requestlock or releaselock.
NoCall == [pc |-> "idle", xx |-> 0, wake |-> 0, call |-> "none", ret |-> 0]
NoLockFile == [exists |-> FALSE, by |-> "nobody"]
NoReturn == [who |-> "nobody", call |-> "none", ret |-> 0, bit |-> 0]
LockOff == [file |-> NoLockFile, clock |-> 0, p |-> [q \in Procs |-> NoCall],
            last |-> NoReturn, held |-> {}]

\* No run of the tool yet.
NoOp == [name |-> "none", MAC |-> PyNone, note |-> "", before |-> NoTable,
         after |-> NoTable, code |-> EXIT_GOOD, resp |-> "none", kind |-> "none",
         recs |-> <<>>, asked |-> {}, events |-> NoEvents, at |-> 0]

\* The rate gate of lookup_MAC before the first call, with time in tenths of a
\* second: next_lookup = time.time() at import.
GateOff == [pc |-> "idle", mode |-> "update", clock |-> 0, next_lookup |-> 0,
            sent |-> <<>>, calls |-> 0]

\* The config file as an editor or the file system leaves it: the UpdateInterval
\* line in order with a value, or not matching the line pattern, or the file not
\* readable, or gone.
Intervals == {10, 20}
\* The cfg dictionary holds the values of UpdateInterval it has: one or none.
Unset == {}
Holds(i) == {i}
Value(loaded) == CHOOSE i \in loaded : TRUE
FileStates == {"ok", "bad", "unreadable", "missing"}
FirstFile == [state |-> "ok", mtime |-> 1, interval |-> 10]

\* service() entering its loop after cli() has loaded the config file, with time in
\* seconds: next_run = time.time().
SvcOff == [pc |-> "loop", clock |-> 0, next_run |-> 0, loaded |-> Holds(FirstFile.interval),
           stamp |-> FirstFile.mtime, file |-> FirstFile, edits |-> 0,
           reload |-> "same", ran |-> FALSE, used |-> Unset,
           start |-> 0 - 1, reloaded |-> FALSE]

\* The keys and values of the cfg dictionary that are followed.
CfgKeys == {"UpdateInterval", "dummy"}
CfgValues == {10, 20}
Dicts == UNION {[K -> CfgValues] : K \in SUBSET CfgKeys}
NoDict == CHOOSE d \in Dicts : DOMAIN d = {}
FirstDict == [k \in {"UpdateInterval"} |-> FirstFile.interval]

\* Before the first loadconfig: an empty dictionary, _config_timestamp 0, and the
\* config file as it was written.
ConfOff == [cfg |-> NoDict, stamp |-> 0,
            file |-> [state |-> "ok", mtime |-> FirstFile.mtime, content |-> FirstDict],
            edits |-> 0, calls |-> 0, ret |-> "none",
            flush_on_reload |-> FALSE, force_flush_reload |-> FALSE]

Init ==
    /\ lookups = NoLookups
    /\ gate = GateOff
    /\ svc = SvcOff
    /\ op = NoOp
    /\ fetch = Unfetched
    /\ conf = ConfOff
    /\ lock = LockOff
    /\ procs = [p \in Procs |-> Quiet]
    /\ writer = NoProc
    /\ disk \in {NoTable, EmptyTable}
    /\ db = disk
    /\ pc = "off"
    /\ exit_code = EXIT_GOOD
    /\ leases \in LeaseTables
    /\ cfg \in [DHCP_SERVER_TYPE : ServerTypes]
    /\ now = 1
    /\ changes = 0
    /\ last = "none"
    /\ events = NoEvents

\* An operation of the tool takes time; the lease table and the configuration are
\* not its to change.
Elapse ==
    /\ now < MaxTime
    /\ now' = now + 1
    /\ UNCHANGED <<leases, cfg, changes>>
    /\ UNCHANGED apart

\* The process ends: the connection is closed (cleanup, or the interpreter's exit),
\* which drops what it had not committed.
Exit(code, committed) ==
    /\ disk' = committed
    /\ db' = committed
    /\ pc' = "off"
    /\ exit_code' = code

\* The loop of db_connect that fills the new table.  The logging.info line formats
\* hostname and IP with a width, which raises TypeError for None.
RECURSIVE CreateLoop(_, _, _, _, _)
CreateLoop(keys, recs, answers, t, st) ==
    IF keys = <<>> \/ st.raised THEN st
    ELSE LET MAC == Head(keys)
             add == db_add_client(st.rows, MAC, recs[MAC], answers[MAC], t)
         IN CreateLoop(Tail(keys), recs, answers, t,
               IF add.raised THEN [st EXCEPT !.raised = TRUE]
               ELSE [rows |-> add.rows,
                     raised |-> recs[MAC].hostname = PyNone \/ recs[MAC].IP = PyNone])

\* db_connect() that takes every database for one without the table and fills it
\* anew.
db_connect_fresh(table, create_db, type, resp, order, ls, answers, t) ==
    LET dhcp == get_dhcp_clients(type, resp, order, ls)
        st == CreateLoop(dhcp.clients.keys, dhcp.clients.recs, answers, t,
                         [rows |-> NoRows, raised |-> FALSE])
    IN CASE dhcp.kind # "return" ->
              [exit |-> TRUE, code |-> EXIT_FAIL, table |-> NoTable]
         [] dhcp.kind = "return" /\ st.raised ->
              [exit |-> TRUE, code |-> EXIT_FAIL, table |-> EmptyTable]
         [] OTHER ->
              [exit |-> TRUE, code |-> EXIT_GOOD,
               table |-> [exists |-> TRUE, rows |-> st.rows]]

\* db_connect() that asks the DHCP server before it drops the table, and drops it
\* only when the server has answered.
db_connect_late(table, create_db, type, resp, order, ls, answers, t) ==
    LET found == table.exists
        dhcp == get_dhcp_clients(type, resp, order, ls)
        st == CreateLoop(dhcp.clients.keys, dhcp.clients.recs, answers, t,
                         [rows |-> NoRows, raised |-> FALSE])
    IN IF ~found \/ create_db THEN
          CASE dhcp.kind # "return" \/ resp # "ok" ->
                 [exit |-> TRUE, code |-> EXIT_FAIL, table |-> table]
            [] dhcp.kind = "return" /\ resp = "ok" /\ st.raised ->
                 [exit |-> TRUE, code |-> EXIT_FAIL, table |-> EmptyTable]
            [] OTHER ->
                 [exit |-> TRUE, code |-> EXIT_GOOD,
                  table |-> [exists |-> TRUE, rows |-> st.rows]]
       ELSE [exit |-> FALSE, code |-> RUNNING, table |-> table]

\* db_connect(): connect; with no table, or with --create-db, (drop and) create the
\* table from the DHCP server's clients and exit.  DROP and CREATE TABLE are
\* committed as they execute; the INSERTs by the commit() after the loop.
\* The result: whether the process has exited, its exit code, the committed table.
db_connect(table, create_db, type, resp, order, ls, answers, t) ==
    LET found == table.exists
        dropped == IF found /\ create_db THEN NoTable ELSE table
        dhcp == get_dhcp_clients(type, resp, order, ls)
        st == CreateLoop(dhcp.clients.keys, dhcp.clients.recs, answers, t,
                         [rows |-> NoRows, raised |-> FALSE])
    IN IF ~found \/ create_db THEN
          CASE dhcp.kind # "return" ->
                 [exit |-> TRUE, code |-> EXIT_FAIL, table |-> dropped]
            [] dhcp.kind = "return" /\ st.raised ->
                 [exit |-> TRUE, code |-> EXIT_FAIL, table |-> EmptyTable]
            [] OTHER ->
                 [exit |-> TRUE, code |-> EXIT_GOOD,
                  table |-> [exists |-> TRUE, rows |-> st.rows]]
       ELSE [exit |-> FALSE, code |-> RUNNING, table |-> table]

\* The MACs of the server's list that have no row yet: the ones looked up.
Unknown(rows, ls) == {m \in Present(ls) : SelectMac(rows, m) = <<>>}

\* What the vendor service answers to each lookup (a MAC that is not looked up gets
\* no request).
AnswerSets(S) == {[m \in MACS |-> IF m \in S THEN a[m] ELSE "404"] : a \in [S -> Answers]}

\* What a run meets outside the program: the server's response, the order of the
\* rows it lists, and the vendor service's answers for the MACs in S.  A server
\* that does not answer shows no rows, and then no lookup is made.
Inputs(type, ls, S) ==
    LET orders == Orders(Present(ls))
        first == CHOOSE o \in orders : TRUE
        unasked == [m \in MACS |-> "404"]
    IN {[resp |-> "ok", order |-> o, answers |-> a] : o \in orders, a \in AnswerSets(S)}
       \cup {[resp |-> r, order |-> first, answers |-> unasked] :
                r \in ResponsesOf(type) \ {"ok"}}

\* db_connect() on a database without the table, or with --create-db: the process
\* ends in db_connect, having written the table anew or not at all.
Bootstrap(create_db) ==
    /\ \E in \in Inputs(cfg.DHCP_SERVER_TYPE, leases, Present(leases)) :
          LET c == db_connect(disk, create_db, cfg.DHCP_SERVER_TYPE, in.resp, in.order,
                              leases, in.answers, now)
              dhcp == get_dhcp_clients(cfg.DHCP_SERVER_TYPE, in.resp, in.order, leases)
          IN /\ Exit(c.code, c.table)
             /\ lookups' = Count(NoLookups, CreateAsked(dhcp, in.answers))
    /\ last' = "none"
    /\ events' = NoEvents

\* A process that changes nothing in the table and exits.
ExitOnly(code) ==
    /\ Exit(code, disk)
    /\ UNCHANGED lookups
    /\ last' = "none"
    /\ events' = NoEvents

\* A process that commits a change made by the user and exits.
ExitEdited(table) ==
    /\ Exit(EXIT_GOOD, table)
    /\ lookups' = [m \in MACS |-> IF table.rows[m] = <<>> THEN 0 ELSE lookups[m]]
    /\ last' = "none"
    /\ events' = NoEvents

\* routermonitor --list-db (or a search term)
main_list_db ==
    /\ pc = "off"
    /\ IF ~disk.exists THEN Bootstrap(FALSE) ELSE ExitOnly(EXIT_GOOD)
    /\ Elapse

\* routermonitor --list-dhcp-server; the dump sorts by hostname.lower()
main_list_dhcp_server ==
    /\ pc = "off"
    /\ IF ~disk.exists THEN Bootstrap(FALSE)
       ELSE \E resp \in ResponsesOf(cfg.DHCP_SERVER_TYPE) :
               LET order == CHOOSE o \in Orders(Present(leases)) : TRUE
                   dhcp == get_dhcp_clients(cfg.DHCP_SERVER_TYPE, resp, order, leases)
                   recs == dhcp.clients.recs
               IN IF dhcp.kind = "return" /\ \A m \in DOMAIN recs : recs[m].hostname # PyNone
                  THEN ExitOnly(EXIT_GOOD)
                  ELSE ExitOnly(EXIT_FAIL)
    /\ Elapse

\* routermonitor --note text [--MAC mac]
main_add_note ==
    /\ pc = "off"
    /\ IF ~disk.exists THEN Bootstrap(FALSE)
       ELSE \E MAC \in MACS \cup {PyNone} : \E note \in Notes :
               LET r == add_note(disk, MAC, note)
               IN IF r.code = EXIT_GOOD THEN ExitEdited(r.table)
                  ELSE ExitOnly(EXIT_FAIL)
    /\ Elapse

\* routermonitor --delete [--MAC mac]
main_delete ==
    /\ pc = "off"
    /\ IF ~disk.exists THEN Bootstrap(FALSE)
       ELSE \E MAC \in MACS \cup {PyNone} :
               LET r == delete_client(disk, MAC)
               IN IF r.code = EXIT_GOOD THEN ExitEdited(r.table)
                  ELSE ExitOnly(EXIT_FAIL)
    /\ Elapse

\* routermonitor --update: db_connect(), do_update(), cleanup(EXIT_GOOD)
main_update ==
    /\ pc = "off"
    /\ IF ~disk.exists THEN Bootstrap(FALSE)
       ELSE \E in \in Inputs(cfg.DHCP_SERVER_TYPE, leases, Unknown(disk.rows, leases)) :
               LET r == do_update(disk.rows, cfg.DHCP_SERVER_TYPE, in.resp, in.order,
                                  leases, in.answers, now)
                   dhcp == get_dhcp_clients(cfg.DHCP_SERVER_TYPE, in.resp, in.order,
                                            leases)
               IN /\ lookups' = Count(lookups, UpdateAsked(dhcp, disk.rows, in.answers))
                  /\ IF r.exit THEN Exit(EXIT_FAIL, disk)
                     ELSE Exit(EXIT_GOOD,
                               IF r.commit THEN [disk EXCEPT !.rows = r.rows] ELSE disk)
                  /\ last' = r.out
                  /\ events' = r.events
    /\ Elapse

\* routermonitor --create-db: db_connect() drops the table, creates it anew and exits
main_create_db ==
    /\ pc = "off"
    /\ Bootstrap(TRUE)
    /\ Elapse

\* routermonitor --service: service() calls db_connect() and enters its loop
service_start ==
    /\ pc = "off"
    /\ IF ~disk.exists THEN Bootstrap(FALSE)
       ELSE /\ pc' = "service"
            /\ exit_code' = RUNNING
            /\ last' = "none"
            /\ events' = NoEvents
            /\ UNCHANGED <<disk, db, lookups>>
    /\ Elapse

\* service(): one turn of the loop whose timer has expired (a turn before that only
\* sleeps): do_update(), and the loop goes on unless the process has exited.
service ==
    /\ pc = "service"
    /\ \E in \in Inputs(cfg.DHCP_SERVER_TYPE, leases, Unknown(db.rows, leases)) :
          LET r == do_update(db.rows, cfg.DHCP_SERVER_TYPE, in.resp, in.order, leases,
                             in.answers, now)
              dhcp == get_dhcp_clients(cfg.DHCP_SERVER_TYPE, in.resp, in.order, leases)
          IN /\ lookups' = Count(lookups, UpdateAsked(dhcp, db.rows, in.answers))
             /\ IF r.exit THEN Exit(EXIT_FAIL, disk)
                ELSE /\ db' = [db EXCEPT !.rows = r.rows]
                     /\ disk' = IF r.commit THEN db' ELSE disk
                     /\ UNCHANGED <<pc, exit_code>>
             /\ last' = r.out
             /\ events' = r.events
    /\ Elapse

\* int_handler: SIGINT or SIGTERM while the service sleeps: cleanup(EXIT_FAIL)
int_handler ==
    /\ pc = "service"
    /\ Exit(EXIT_FAIL, disk)
    /\ last' = "none"
    /\ events' = NoEvents
    /\ UNCHANGED <<leases, cfg, now, changes, lookups>>
    /\ UNCHANGED apart

\* The DHCP server grants, changes or drops leases between two runs of the tool.
EnvLease ==
    /\ changes < MaxChanges
    /\ changes' = changes + 1
    /\ \E ls \in LeaseTables :
          /\ ls # leases
          /\ leases' = ls
    /\ last' = "none"
    /\ events' = NoEvents
    /\ UNCHANGED <<disk, db, pc, exit_code, cfg, now, lookups>>
    /\ UNCHANGED apart

Next ==
    \/ main_list_db
    \/ main_list_dhcp_server
    \/ main_add_note
    \/ main_delete
    \/ main_update
    \/ main_create_db
    \/ service_start
    \/ service
    \/ int_handler
    \/ EnvLease

Spec == Init /\ [][Next]_vars

-----------------------------------------------------------------------------
(* Two instances on one database file, statement by statement *)

\* The number of reconciles an instance begins.
MaxRuns == 1

\* What instance p's connection reads: its own uncommitted statements on top of
\* the committed table when it holds the write lock, else the committed table.
View(p) == IF writer = p THEN db.rows ELSE disk.rows

\* do_update returns in instance p: service() goes on to sleep with its
\* transaction as it is; main() calls cleanup(EXIT_GOOD), and closing the connection
\* drops what it had not committed.  d, v, w: committed table, writer's view and
\* writer as do_update leaves them.
Returned(p, d, v, w, why) ==
    IF p = "service"
    THEN /\ procs' = [procs EXCEPT ![p].pc = "idle", ![p].why = why]
         /\ disk' = d /\ db' = v /\ writer' = w
    ELSE /\ procs' = [procs EXCEPT ![p].pc = "off", ![p].why = why]
         /\ disk' = d
         /\ db' = IF w = p THEN d ELSE v
         /\ writer' = IF w = p THEN NoProc ELSE w

\* SystemExit in instance p: the connection is closed with the process.
Ended(p, why) ==
    /\ procs' = [procs EXCEPT ![p].pc = "off", ![p].why = why]
    /\ disk' = disk
    /\ db' = IF writer = p THEN disk ELSE db
    /\ writer' = IF writer = p THEN NoProc ELSE writer

Still == UNCHANGED <<pc, exit_code, leases, cfg, now, changes, last, events, lookups, gate, svc,
                     op, fetch, conf, lock>>

\* routermonitor --service: db_connect() finds the table, service() enters its loop
StartService ==
    /\ procs["service"].pc = "off"
    /\ procs' = [procs EXCEPT !["service"].pc = "idle", !["service"].why = "none"]
    /\ UNCHANGED <<disk, db, writer>>
    /\ Still

\* do_update, lines 182-183: get_dhcp_clients() and get_database_clients().  The
\* one-shot instance starts here (cli, db_connect, main).
Fetch(p) ==
    /\ procs[p].pc = IF p = "service" THEN "idle" ELSE "off"
    /\ procs[p].runs < MaxRuns
    /\ \E in \in Inputs(cfg.DHCP_SERVER_TYPE, leases, {}) :
          LET dhcp == get_dhcp_clients(cfg.DHCP_SERVER_TYPE, in.resp, in.order, leases)
          IN CASE dhcp.kind = "exit" -> Ended(p, "exit")
               [] dhcp.kind = "raise" -> Returned(p, disk, db, writer, "raised")
               [] OTHER ->
                    /\ procs' = [procs EXCEPT ![p] =
                                   [pc |-> "loop", keys |-> dhcp.clients.keys,
                                    recs |-> dhcp.clients.recs,
                                    dbc |-> get_database_clients(View(p)),
                                    runs |-> @.runs + 1, why |-> "none"]]
                    /\ UNCHANGED <<disk, db, writer>>
    /\ Still

\* One turn of do_update's loop in instance p.  Its INSERT or UPDATE needs the write
\* lock: while another connection holds it the statement raises OperationalError
\* (database is locked) once the busy timeout is over.
Statement(p) ==
    /\ procs[p].pc = "loop"
    /\ procs[p].keys # <<>>
    /\ LET MAC == Head(procs[p].keys)
           known == MAC \in DOMAIN procs[p].dbc
       IN \E answer \in IF known THEN {"404"} ELSE Answers :
             LET st == UpdateOne(MAC, procs[p].recs[MAC], procs[p].dbc, answer, now,
                                 [rows |-> View(p), events |-> NoEvents, raised |-> FALSE])
                 writes == ~st.raised /\ (~known \/ st.events # NoEvents)
                 locked == writer \notin {p, NoProc}
             IN IF st.raised \/ (writes /\ locked)
                THEN Returned(p, disk, db, writer, "aborted")
                ELSE /\ procs' = [procs EXCEPT ![p].keys = Tail(@)]
                     /\ IF writes
                        THEN db' = [exists |-> TRUE, rows |-> st.rows] /\ writer' = p
                        ELSE UNCHANGED <<db, writer>>
                     /\ disk' = disk
    /\ Still

\* do_update, line 211: db_connection.commit()
Commit(p) ==
    /\ procs[p].pc = "loop"
    /\ procs[p].keys = <<>>
    /\ IF writer = p
       THEN Returned(p, db, db, NoProc, "done")
       ELSE Returned(p, disk, db, writer, "done")
    /\ Still

\* SIGINT or SIGTERM to instance p, wherever it is: int_handler, cleanup(EXIT_FAIL)
Signal(p) ==
    /\ procs[p].pc # "off"
    /\ Ended(p, "signal")
    /\ Still

NextSteps ==
    \/ StartService
    \/ \E p \in Procs : Fetch(p)
    \/ \E p \in Procs : Statement(p)
    \/ \E p \in Procs : Commit(p)
    \/ \E p \in Procs : Signal(p)

InitSteps ==
    /\ lookups = NoLookups
    /\ gate = GateOff
    /\ svc = SvcOff
    /\ op = NoOp
    /\ fetch = Unfetched
    /\ conf = ConfOff
    /\ lock = LockOff
    /\ procs = [p \in Procs |-> Quiet]
    /\ writer = NoProc
    /\ disk = EmptyTable
    /\ db = disk
    /\ pc = "off"
    /\ exit_code = EXIT_GOOD
    /\ leases \in LeaseTables
    /\ cfg \in [DHCP_SERVER_TYPE : ServerTypes]
    /\ now = 1
    /\ changes = 0
    /\ last = "none"
    /\ events = NoEvents

SpecSteps == InitSteps /\ [][NextSteps]_vars

-----------------------------------------------------------------------------
(* The rate gate of lookup_MAC, call by call, with time in tenths of a second *)

MaxClock == 16
MaxCalls == 3

\* next_lookup = time.time() + 0.6, and time.sleep(5) of the service loop
MinSpacing == 6
SleepTicks == 50

\* if time.time() > next_lookup: break
GateOpen(t, next_lookup) == t > next_lookup

\* next_lookup as set with no spacing added.
NextLookup_now(t) == t

\* next_lookup = time.time() + 0.6
NextLookup(t) == t + MinSpacing

\* What the gate's behaviours leave alone.
inventory == <<disk, db, pc, exit_code, leases, cfg, now, changes, last, events, lookups,
               procs, writer, op, fetch, conf, lock>>

\* time.time() advances: between calls, in the busy loop, during the request.
GateTick ==
    /\ gate.pc # "done"
    /\ gate.clock < MaxClock
    /\ gate' = [gate EXCEPT !.clock = @ + 1]
    /\ UNCHANGED <<inventory, svc>>

\* db_add_client calls lookup_MAC, which enters its loop "while 1".
GateCall ==
    /\ gate.pc = "idle"
    /\ gate.calls < MaxCalls
    /\ gate' = [gate EXCEPT !.pc = "wait", !.calls = @ + 1]
    /\ UNCHANGED <<inventory, svc>>

\* The loop reads the clock past next_lookup and breaks.
GatePass ==
    /\ gate.pc = "wait"
    /\ GateOpen(gate.clock, gate.next_lookup)
    /\ gate' = [gate EXCEPT !.pc = "open"]
    /\ UNCHANGED <<inventory, svc>>

\* requests.get sends the request.
GateRequest ==
    /\ gate.pc = "open"
    /\ gate' = [gate EXCEPT !.pc = "request", !.sent = Append(@, gate.clock)]
    /\ UNCHANGED <<inventory, svc>>

\* The vendor service answers, with status 200 or another: next_lookup is set and
\* lookup_MAC returns.
GateAnswer ==
    /\ gate.pc = "request"
    /\ gate' = [gate EXCEPT !.pc = "idle", !.next_lookup = NextLookup(gate.clock)]
    /\ UNCHANGED <<inventory, svc>>

\* requests.get raises: next_lookup stays as it was and the caller's loop is left;
\* the one-shot process ends, the service sleeps 5 s before it does anything else.
GateRaise ==
    /\ gate.pc = "request"
    /\ gate' = IF gate.mode = "service"
               THEN [gate EXCEPT !.pc = "idle", !.clock = @ + SleepTicks]
               ELSE [gate EXCEPT !.pc = "done"]
    /\ UNCHANGED <<inventory, svc>>

NextGate ==
    \/ GateTick
    \/ GateCall
    \/ GatePass
    \/ GateRequest
    \/ GateAnswer
    \/ GateRaise

InitGate ==
    /\ gate \in {[GateOff EXCEPT !.mode = md] : md \in Procs}
    /\ svc = SvcOff
    /\ op = NoOp
    /\ fetch = Unfetched
    /\ conf = ConfOff
    /\ lock = LockOff
    /\ lookups = NoLookups
    /\ procs = [p \in Procs |-> Quiet]
    /\ writer = NoProc
    /\ disk = EmptyTable
    /\ db = disk
    /\ pc = "off"
    /\ exit_code = EXIT_GOOD
    /\ leases = [m \in MACS |-> NoLease]
    /\ cfg = [DHCP_SERVER_TYPE |-> "pfSense"]
    /\ now = 1
    /\ changes = 0
    /\ last = "none"
    /\ events = NoEvents

SpecGate == InitGate /\ [][NextGate]_vars

-----------------------------------------------------------------------------
(* The loop of service(), turn by turn, with time in seconds *)

MaxSeconds == 30
MaxEdits == 2

\* time.sleep(5)
Sleep == 5

\* The seconds one do_update may take: a quick cycle, and one whose fetch and
\* lookups take longer than the UpdateInterval of the first config file.
Durations == {1, 15}

\* loadconfig(flush_on_reload) on the config file, with _config_timestamp stamp and
\* the cfg dictionary holding loaded: ConfigError when the file is not there; False
\* when its modification time is the one recorded; else the time is recorded, the
\* dictionary flushed, and the file read: ConfigError when it cannot be opened, a
\* line that does not match skipped with a warning.
loadconfig(file, stamp, loaded, flush_on_reload) ==
    IF file.state = "missing"
    THEN [raised |-> TRUE, ret |-> FALSE, stamp |-> stamp, loaded |-> loaded]
    ELSE IF stamp = file.mtime
    THEN [raised |-> FALSE, ret |-> FALSE, stamp |-> stamp, loaded |-> loaded]
    ELSE LET flushed == IF flush_on_reload THEN Unset ELSE loaded
         IN CASE file.state = "unreadable" ->
                   [raised |-> TRUE, ret |-> FALSE, stamp |-> file.mtime,
                    loaded |-> flushed]
              [] file.state = "bad" ->
                   [raised |-> FALSE, ret |-> TRUE, stamp |-> file.mtime,
                    loaded |-> flushed]
              [] OTHER ->
                   [raised |-> FALSE, ret |-> TRUE, stamp |-> file.mtime,
                    loaded |-> Holds(file.interval)]

\* One turn of "while True": loadconfig, which takes time; after a reload
\* next_run = time.time(); then "if time.time() > next_run", read right after the
\* assignment, so that the clock may show the same value (late = 0) or a later one;
\* do_update, which takes time, and next_run += UpdateInterval, for which getcfg
\* raises ConfigError when the dictionary has no such key; time.sleep(5).  An
\* exception ends the process: service() and cli() catch none.  start is the time
\* at which do_update was last called, reloaded whether a turn since has reloaded
\* the config file.
Turn ==
    /\ svc.pc = "loop"
    /\ svc.clock < MaxSeconds
    /\ LET r == loadconfig(svc.file, svc.stamp, svc.loaded, TRUE)
           t1 == svc.clock + 1
           seen == [svc EXCEPT !.stamp = r.stamp, !.loaded = r.loaded,
                               !.reload = IF r.raised THEN "raised"
                                          ELSE IF r.ret THEN "loaded" ELSE "same",
                               !.ran = FALSE, !.used = Unset,
                               !.reloaded = @ \/ r.ret]
       IN IF r.raised
          THEN svc' = [seen EXCEPT !.pc = "dead", !.clock = t1]
          ELSE \E late \in IF r.ret THEN {0, 1} ELSE {0} : \E took \in Durations :
                  LET next_run == IF r.ret THEN t1 ELSE svc.next_run
                      t2 == t1 + late
                  IN svc' = IF ~(t2 > next_run)
                            THEN [seen EXCEPT !.next_run = next_run,
                                              !.clock = t2 + Sleep]
                            ELSE   IF r.loaded = Unset
                                   THEN [seen EXCEPT !.pc = "dead",
                                                     !.next_run = next_run,
                                                     !.clock = t2 + took, !.ran = TRUE,
                                                     !.start = t2, !.reloaded = FALSE]
                                   ELSE [seen EXCEPT
                                           !.next_run = next_run + Value(r.loaded),
                                           !.clock = t2 + took + Sleep,
                                           !.ran = TRUE, !.used = r.loaded,
                                           !.start = t2, !.reloaded = FALSE]
    /\ UNCHANGED <<inventory, gate>>

\* Somebody edits, replaces or removes the config file.
EditFile ==
    /\ svc.edits < MaxEdits
    /\ \E st \in FileStates : \E i \in Intervals :
          svc' = [svc EXCEPT
                    !.edits = @ + 1,
                    !.file = IF st = "missing" THEN [@ EXCEPT !.state = st]
                             ELSE [state |-> st, mtime |-> @.mtime + 1,
                                   interval |-> IF st = "ok" THEN i ELSE @.interval]]
    /\ UNCHANGED <<inventory, gate>>

NextLoop ==
    \/ Turn
    \/ EditFile

InitLoop ==
    /\ svc = SvcOff
    /\ op = NoOp
    /\ fetch = Unfetched
    /\ conf = ConfOff
    /\ lock = LockOff
    /\ gate = GateOff
    /\ lookups = NoLookups
    /\ procs = [p \in Procs |-> Quiet]
    /\ writer = NoProc
    /\ disk = EmptyTable
    /\ db = disk
    /\ pc = "off"
    /\ exit_code = EXIT_GOOD
    /\ leases = [m \in MACS |-> NoLease]
    /\ cfg = [DHCP_SERVER_TYPE |-> "pfSense"]
    /\ now = 1
    /\ changes = 0
    /\ last = "none"
    /\ events = NoEvents

SpecLoop == InitLoop /\ [][NextLoop]_vars

-----------------------------------------------------------------------------
(* The one-shot commands, run by run, each with its arguments and what it did *)

\* What a run leaves on record: the branch of main or db_connect that it reached,
\* its --MAC and --note, the committed table before and after, the exit code, what
\* the DHCP server answered and the clients obtained, the MACs looked up, the
\* change events, and the time.
Transcript(name, MAC, note, after, code, resp, dhcp, asked, ev) ==
    [name |-> name, MAC |-> MAC, note |-> note, before |-> disk, after |-> after,
     code |-> code, resp |-> resp, kind |-> dhcp.kind, recs |-> dhcp.clients.recs,
     asked |-> asked, events |-> ev, at |-> now]

\* A run that asks the DHCP server nothing.
NoFetch == [kind |-> "none", clients |-> NoClients]

\* db_connect() creating the table, which ends the run whatever the command was.
Connects(create_db) ==
    {LET dhcp == get_dhcp_clients(cfg.DHCP_SERVER_TYPE, in.resp, in.order, leases)
         c == db_connect(disk, create_db, cfg.DHCP_SERVER_TYPE, in.resp, in.order,
                         leases, in.answers, now)
     IN Transcript(IF create_db THEN "create-db" ELSE "bootstrap", PyNone, "",
                   c.table, c.code, in.resp, dhcp, CreateAsked(dhcp, in.answers),
                   NoEvents) :
       in \in Inputs(cfg.DHCP_SERVER_TYPE, leases, Present(leases))}

\* db_connect() without --create-db on a database that has the table: no request
\* goes to the DHCP server.
Connected ==
    db_connect(disk, FALSE, cfg.DHCP_SERVER_TYPE, "ok", <<>>, leases,
               [m \in MACS |-> "404"], now)

\* routermonitor --list-db: db_connect(), then the table is printed
ListDbRuns ==
    IF ~disk.exists THEN Connects(FALSE)
    ELSE {Transcript("list-db", PyNone, "", Connected.table, EXIT_GOOD, "none",
                     NoFetch, {}, NoEvents)}

\* routermonitor --create-db
CreateDbRuns == Connects(TRUE)

\* routermonitor --note text [--MAC mac]
AddNoteRuns ==
    IF ~disk.exists THEN Connects(FALSE)
    ELSE {LET r == add_note(disk, MAC, note)
          IN Transcript("add-note", MAC, note, r.table, r.code, "none", NoFetch, {},
                        NoEvents) :
            MAC \in MACS \cup {PyNone}, note \in Notes}

\* routermonitor --delete [--MAC mac]
DeleteRuns ==
    IF ~disk.exists THEN Connects(FALSE)
    ELSE {LET r == delete_client(disk, MAC)
          IN Transcript("delete", MAC, "", r.table, r.code, "none", NoFetch, {},
                        NoEvents) :
            MAC \in MACS \cup {PyNone}}

\* routermonitor --update
UpdateRuns ==
    IF ~disk.exists THEN Connects(FALSE)
    ELSE {LET dhcp == get_dhcp_clients(cfg.DHCP_SERVER_TYPE, in.resp, in.order, leases)
              r == do_update(disk.rows, cfg.DHCP_SERVER_TYPE, in.resp, in.order,
                             leases, in.answers, now)
          IN Transcript("update", PyNone, "",
                        IF r.commit /\ ~r.exit THEN [disk EXCEPT !.rows = r.rows]
                        ELSE disk,
                        IF r.exit THEN EXIT_FAIL ELSE EXIT_GOOD,
                        in.resp, dhcp, UpdateAsked(dhcp, disk.rows, in.answers),
                        r.events) :
            in \in Inputs(cfg.DHCP_SERVER_TYPE, leases, Unknown(disk.rows, leases))}

\* One run of the tool: the process starts, does what the transcript says and exits.
OpRun(runs) ==
    /\ now < MaxTime
    /\ \E t \in runs :
          /\ op' = t
          /\ disk' = t.after
          /\ db' = t.after
    /\ now' = now + 1
    /\ UNCHANGED <<pc, exit_code, leases, cfg, changes, last, events, lookups, procs,
                   writer, gate, svc, fetch, conf, lock>>

OpListDb == OpRun(ListDbRuns)
OpCreateDb == OpRun(CreateDbRuns)
OpAddNote == OpRun(AddNoteRuns)
OpDelete == OpRun(DeleteRuns)
OpUpdate == OpRun(UpdateRuns)

\* The DHCP server's lease table changes between two runs.
OpLease ==
    /\ changes < MaxChanges
    /\ changes' = changes + 1
    /\ \E ls \in LeaseTables :
          /\ ls # leases
          /\ leases' = ls
    /\ UNCHANGED <<disk, db, pc, exit_code, cfg, now, last, events, lookups, procs,
                   writer, gate, svc, op, fetch, conf, lock>>

NextOps ==
    \/ OpListDb
    \/ OpCreateDb
    \/ OpAddNote
    \/ OpDelete
    \/ OpUpdate
    \/ OpLease

InitOps ==
    /\ op = NoOp
    /\ fetch = Unfetched
    /\ conf = ConfOff
    /\ lock = LockOff
    /\ svc = SvcOff
    /\ gate = GateOff
    /\ lookups = NoLookups
    /\ procs = [p \in Procs |-> Quiet]
    /\ writer = NoProc
    /\ disk \in {NoTable, EmptyTable}
    /\ db = disk
    /\ pc = "off"
    /\ exit_code = EXIT_GOOD
    /\ leases \in LeaseTables
    /\ cfg \in [DHCP_SERVER_TYPE : ServerTypes]
    /\ now = 1
    /\ changes = 0
    /\ last = "none"
    /\ events = NoEvents

SpecOps == InitOps /\ [][NextOps]_vars

-----------------------------------------------------------------------------
(* --update run by run, with a mail server that may fail *)

\* What an --update meets outside the program when the mail server may fail too.
NotifyInputs(type, ls, S) ==
    {[resp |-> "ok", order |-> o, answers |-> [m \in MACS |-> IF m \in S THEN a[m] ELSE "404"]] :
        o \in Orders(Present(ls)), a \in [S -> Answers \cup MailFails]}

NotifyRuns ==
    {LET dhcp == get_dhcp_clients(cfg.DHCP_SERVER_TYPE, in.resp, in.order, leases)
         r == do_update(disk.rows, cfg.DHCP_SERVER_TYPE, in.resp, in.order,
                        leases, in.answers, now)
     IN Transcript("update", PyNone, "",
                   IF r.commit /\ ~r.exit THEN [disk EXCEPT !.rows = r.rows]
                   ELSE disk,
                   IF r.exit THEN EXIT_FAIL ELSE EXIT_GOOD,
                   in.resp, dhcp, UpdateAsked(dhcp, disk.rows, in.answers),
                   r.events) :
       in \in NotifyInputs(cfg.DHCP_SERVER_TYPE, leases, Unknown(disk.rows, leases))}

OpNotify == OpRun(NotifyRuns)

NextNotify == OpNotify \/ OpLease

InitNotify == InitOps /\ disk.exists

SpecNotify == InitNotify /\ [][NextNotify]_vars

-----------------------------------------------------------------------------
(* get_dhcp_clients, fetch by fetch, on what the server may send *)

\* The rows of a lease page and the lines of a lease file that are followed.
MaxRows == 2
MaxLines == 3

\* The text of the cells of a row: the MAC in either spelling, a Hostname cell with
\* a name, with no text or with a blank, an IP and an End cell with or without text.
Cells == <<IPs \cup {PyNone}, {FirstMAC, UpperCase(FirstMAC)},
           {"old", PyNone, " "}, {PfEnd(e) : e \in Expiries} \cup {PyNone}>>

\* The <tr>s a page may hold: with a <td> under each header, or without the last.
PageRows ==
    {r \in UNION {[1..n -> UNION {Cells[j] : j \in DOMAIN Cells}] :
                    n \in {Len(headers) - 1, Len(headers)}} :
        \A j \in DOMAIN r : r[j] \in Cells[j]}

\* The lines a lease file may hold, as their fields: leases of the first MAC in
\* either spelling, with or without a hostname, a line of other text, and the empty
\* string that split("\n") leaves after the last newline.
FileLines ==
    {<<Digits(100), m, ip, h>> : m \in {FirstMAC, UpperCase(FirstMAC)}, ip \in IPs,
                                 h \in {"old", ""}}
    \cup {<<"garbage">>, <<>>}

\* What the server may send to one fetch.
Sendable(type) ==
    IF Lower(type) = "pfsense"
    THEN UNION {[1..n -> PageRows] : n \in 1..MaxRows}
    ELSE IF Lower(type) = "dd-wrt"
    THEN UNION {[1..n -> FileLines] : n \in 1..MaxLines}
    ELSE {<<>>}

\* What one get_dhcp_clients makes of the rows or lines sent.
Answered(sent, list, dhcp) ==
    [sent |-> sent, kind |-> dhcp.kind, list |-> list,
     keys |-> dhcp.clients.keys, recs |-> dhcp.clients.recs]

Unsent == /\ fetch.kind = "none"
          /\ UNCHANGED <<disk, db, pc, exit_code, leases, cfg, now, changes, last, events,
                          lookups, procs, writer, gate, svc, op, conf, lock>>

\* get_dhcp_clients with DHCP_SERVER_TYPE pfsense, on a page that the server sent.
FetchPfsense ==
    /\ Unsent
    /\ Lower(cfg.DHCP_SERVER_TYPE) = "pfsense"
    /\ \E rows \in Sendable(cfg.DHCP_SERVER_TYPE) :
          fetch' = Answered(rows, least_list(rows), pf_clients_list(least_list(rows)))

\* get_dhcp_clients with DHCP_SERVER_TYPE dd-wrt, on the lines that ssh returned.
FetchDdwrt ==
    /\ Unsent
    /\ Lower(cfg.DHCP_SERVER_TYPE) = "dd-wrt"
    /\ \E lines \in Sendable(cfg.DHCP_SERVER_TYPE) :
          fetch' = Answered(lines, <<>>,
                            [kind |-> "return", clients |-> DdwrtClients(lines, NoClients)])

\* get_dhcp_clients with another DHCP_SERVER_TYPE: cleanup(EXIT_FAIL).
FetchInvalid ==
    /\ Unsent
    /\ Lower(cfg.DHCP_SERVER_TYPE) \notin {"pfsense", "dd-wrt"}
    /\ fetch' = Answered(<<>>, <<>>, [kind |-> "exit", clients |-> NoClients])

NextSource == FetchPfsense \/ FetchDdwrt \/ FetchInvalid

InitSource ==
    /\ fetch = Unfetched
    /\ conf = ConfOff
    /\ lock = LockOff
    /\ op = NoOp
    /\ svc = SvcOff
    /\ gate = GateOff
    /\ lookups = NoLookups
    /\ procs = [p \in Procs |-> Quiet]
    /\ writer = NoProc
    /\ disk = EmptyTable
    /\ db = disk
    /\ pc = "off"
    /\ exit_code = EXIT_GOOD
    /\ leases = [m \in MACS |-> NoLease]
    /\ cfg \in [DHCP_SERVER_TYPE : ServerTypes]
    /\ now = 1
    /\ changes = 0
    /\ last = "none"
    /\ events = NoEvents

SpecSource == InitSource /\ [][NextSource]_vars

-----------------------------------------------------------------------------
(* funcs3's loadconfig, call by call, on a config file that is edited *)

\* The calls of loadconfig that are followed.
MaxLoads == 3

\* cfg[key] = value for each line of the file, over the dictionary d.
Loaded(d, e) ==
    [k \in DOMAIN d \cup DOMAIN e |-> IF k \in DOMAIN e THEN e[k] ELSE d[k]]

\* loadconfig, were it to flush the dictionary before it looks at the file's time.
loadconfig_cfg_eager(file, stamp, dict, flush_on_reload, force_flush_reload) ==
    LET d0 == IF force_flush_reload \/ flush_on_reload THEN NoDict ELSE dict
        s0 == IF force_flush_reload THEN 0 ELSE stamp
    IN IF file.state = "missing" THEN [ret |-> "raised", stamp |-> s0, cfg |-> d0]
       ELSE IF s0 = file.mtime THEN [ret |-> "False", stamp |-> s0, cfg |-> d0]
       ELSE IF file.state = "unreadable"
       THEN [ret |-> "raised", stamp |-> file.mtime, cfg |-> d0]
       ELSE [ret |-> "True", stamp |-> file.mtime, cfg |-> Loaded(d0, file.content)]

\* loadconfig, were it to take no notice of force_flush_reload.
loadconfig_cfg_unforced(file, stamp, dict, flush_on_reload, force_flush_reload) ==
    IF file.state = "missing" THEN [ret |-> "raised", stamp |-> stamp, cfg |-> dict]
    ELSE IF stamp = file.mtime THEN [ret |-> "False", stamp |-> stamp, cfg |-> dict]
    ELSE LET d1 == IF flush_on_reload THEN NoDict ELSE dict
         IN IF file.state = "unreadable"
            THEN [ret |-> "raised", stamp |-> file.mtime, cfg |-> d1]
            ELSE [ret |-> "True", stamp |-> file.mtime, cfg |-> Loaded(d1, file.content)]

\* loadconfig(cfgfile, flush_on_reload, force_flush_reload) with the globals cfg
\* (dict) and _config_timestamp (stamp): force_flush_reload clears the dictionary
\* and the recorded time; ConfigError when the file is not there; False when the
\* file's modification time is the recorded one; else the time is recorded, the
\* dictionary cleared under flush_on_reload, and the file read: ConfigError when it
\* cannot be opened, else its keys are put into the dictionary and True returned.
loadconfig_cfg(file, stamp, dict, flush_on_reload, force_flush_reload) ==
    LET d0 == IF force_flush_reload THEN NoDict ELSE dict
        s0 == IF force_flush_reload THEN 0 ELSE stamp
    IN IF file.state = "missing" THEN [ret |-> "raised", stamp |-> s0, cfg |-> d0]
       ELSE IF s0 = file.mtime THEN [ret |-> "False", stamp |-> s0, cfg |-> d0]
       ELSE LET d1 == IF flush_on_reload THEN NoDict ELSE d0
            IN IF file.state = "unreadable"
               THEN [ret |-> "raised", stamp |-> file.mtime, cfg |-> d1]
               ELSE [ret |-> "True", stamp |-> file.mtime,
                     cfg |-> Loaded(d1, file.content)]

\* Everything but funcs3's configuration.
unconfigured == <<disk, db, pc, exit_code, leases, cfg, now, changes, last, events,
                  lookups, procs, writer, gate, svc, op, fetch, lock>>

\* The program calls loadconfig and goes on, with the result or having caught the
\* ConfigError.
ConfLoad ==
    /\ conf.calls < MaxLoads
    /\ \E flush_on_reload \in BOOLEAN : \E force_flush_reload \in BOOLEAN :
          LET r == loadconfig_cfg(conf.file, conf.stamp, conf.cfg, flush_on_reload,
                                  force_flush_reload)
          IN conf' = [conf EXCEPT !.cfg = r.cfg, !.stamp = r.stamp, !.ret = r.ret,
                                  !.calls = @ + 1,
                                  !.flush_on_reload = flush_on_reload,
                                  !.force_flush_reload = force_flush_reload]
    /\ UNCHANGED unconfigured

\* The program puts a key into the dictionary: cfg[key] = value.
ConfSet ==
    /\ \E k \in CfgKeys : \E v \in CfgValues :
          /\ conf.cfg # Loaded(conf.cfg, [x \in {k} |-> v])
          /\ conf' = [conf EXCEPT !.cfg = Loaded(@, [x \in {k} |-> v])]
    /\ UNCHANGED unconfigured

\* Somebody writes the config file anew, takes the read permission away with the
\* change, or removes the file.
ConfEdit ==
    /\ conf.edits < MaxEdits
    /\ \E st \in {"ok", "unreadable", "missing"} : \E d \in Dicts :
          conf' = [conf EXCEPT !.edits = @ + 1,
                               !.file = IF st = "missing" THEN [@ EXCEPT !.state = st]
                                        ELSE [state |-> st, mtime |-> @.mtime + 1,
                                              content |-> d]]
    /\ UNCHANGED unconfigured

NextConf == ConfLoad \/ ConfSet \/ ConfEdit

SpecConf == InitLoop /\ [][NextConf]_vars

-----------------------------------------------------------------------------
(* funcs3's lock file: requestlock and releaselock, statement by statement *)

\* Everything but the lock file and its processes.
unlocked == <<disk, db, pc, exit_code, leases, cfg, now, changes, last, events, lookups,
              procs, writer, gate, svc, op, fetch, conf>>

\* A call has returned ret to p: the call, its result, and a bit that tells one
\* return from the next.
Return(p, call, ret) ==
    [who |-> p, call |-> call, ret |-> ret,
     bit |-> 1 - lock.last.bit]

\* requestlock's test "time.time() > xx", were it to give up at once.
TimedOut_now(clock, xx) == TRUE

\* requestlock: if time.time() > xx: break
TimedOut(clock, xx) == clock > xx

\* requestlock(caller=p, timeout=LockTimeout) is called: xx = time.time() + timeout.
Request(p) ==
    /\ lock.p[p].pc = "idle"
    /\ lock' = [lock EXCEPT !.p[p] = [pc |-> "test", xx |-> lock.clock + LockTimeout,
                                      wake |-> 0, call |-> "requestlock", ret |-> 0]]
    /\ UNCHANGED unlocked

\* One turn of "while True": os.path.exists(lock_file); when the file is not there
\* the process goes on to io.open; when it is there and the time is up it leaves
\* the loop, reads the file for the warning and returns -1; else time.sleep(0.1).
Test(p) ==
    /\ lock.p[p].pc = "test"
    /\ lock' = IF ~lock.file.exists
               THEN [lock EXCEPT !.p[p].pc = "open"]
               ELSE IF TimedOut(lock.clock, lock.p[p].xx)
               THEN [lock EXCEPT !.p[p] = [@ EXCEPT !.pc = "idle", !.ret = 0 - 1],
                                 !.last = Return(p, "requestlock", 0 - 1)]
               ELSE [lock EXCEPT !.p[p] = [@ EXCEPT !.pc = "sleep",
                                                    !.wake = lock.clock + 1]]
    /\ UNCHANGED unlocked

\* io.open(lock_file, 'w') and write: the file is created, or emptied if it is there
\* by now, and holds the caller; return 0.  When io.open raises, return -1.
Open(p) ==
    /\ lock.p[p].pc = "open"
    /\ \/ lock' = [lock EXCEPT !.file = [exists |-> TRUE, by |-> p],
                               !.p[p] = [@ EXCEPT !.pc = "idle", !.ret = 0],
                               !.last = Return(p, "requestlock", 0),
                               !.held = @ \cup {p}]
       \/ lock' = [lock EXCEPT !.p[p] = [@ EXCEPT !.pc = "idle", !.ret = 0 - 1],
                               !.last = Return(p, "requestlock", 0 - 1)]
    /\ UNCHANGED unlocked

\* time.sleep(0.1) is over.
Wake(p) ==
    /\ lock.p[p].pc = "sleep"
    /\ lock.clock >= lock.p[p].wake
    /\ lock' = [lock EXCEPT !.p[p].pc = "test"]
    /\ UNCHANGED unlocked

\* A tenth of a second passes.
Tick ==
    /\ lock.clock < MaxTicks
    /\ lock' = [lock EXCEPT !.clock = @ + 1]
    /\ UNCHANGED unlocked

\* releaselock(): the file is there and os.remove removes it, return 0; os.remove
\* raises, return -1; the file is not there, return -1.
Release(p) ==
    /\ lock.p[p].pc = "idle"
    /\ \/ /\ lock.file.exists
          /\ lock' = [lock EXCEPT !.file = NoLockFile,
                                  !.p[p] = [@ EXCEPT !.call = "releaselock", !.ret = 0],
                                  !.last = Return(p, "releaselock", 0),
                                  !.held = {}]
       \/ lock' = [lock EXCEPT !.p[p] = [@ EXCEPT !.call = "releaselock", !.ret = 0 - 1],
                               !.last = Return(p, "releaselock", 0 - 1)]
    /\ UNCHANGED unlocked

NextLock ==
    \/ \E p \in Procs : Request(p)
    \/ \E p \in Procs : Test(p)
    \/ \E p \in Procs : Open(p)
    \/ \E p \in Procs : Wake(p)
    \/ Tick
    \/ \E p \in Procs : Release(p)

SpecLock == InitLoop /\ [][NextLock]_vars

-----------------------------------------------------------------------------
(* Properties *)

\* A step in which do_update ran: main_update past db_connect, or a turn of service.
DoUpdateStep == now' = now + 1 /\ last' \in Outcomes

\* The clients that get_dhcp_clients returns when the server answers.
Snapshot == get_dhcp_clients(cfg.DHCP_SERVER_TYPE, "ok",
                             CHOOSE o \in Orders(Present(leases)) : TRUE, leases).clients.recs

\* The do_update of this step obtained the snapshot.
Fetched == last' \in {"committed", "aborted"}

InStore(t) == {m \in MACS : t.rows[m] # <<>>}

\* C1: if the source adapter fails during do_update, the contents of the store after
\* the call are those before the call.
C1_FailedFetchLeavesStore ==
    [][DoUpdateStep /\ last' \in SourceFailed => db' = db]_vars

\* C2: a backend that cannot obtain a snapshot never has get_dhcp_clients return an
\* empty mapping that do_update processes as a snapshot of zero clients.
C2_FailureIsNotZeroClients == last # "fetch_empty"

\* C3: in service mode a cycle that fails for a recoverable reason (the source is
\* unreachable, a lookup fails) leaves the service process running.
C3_ServiceSurvivesFailure ==
    [][/\ pc = "service"
       /\ DoUpdateStep
       /\ Lower(cfg.DHCP_SERVER_TYPE) \in {"pfsense", "dd-wrt"}
       /\ last' \in SourceFailed \cup {"aborted"}
       => pc' = "service"]_vars

\* C4: a second do_update in succession, against the same snapshot, produces no change
\* event.
C4_SecondRunSilent ==
    [][last = "committed" /\ DoUpdateStep /\ Fetched => events' = NoEvents]_vars

\* C5: for every MAC in the snapshot and absent from the store, do_update emits exactly
\* one new-client event, and afterwards the store holds exactly one entry for it, with
\* first_seen the insertion time and empty notes.
C5_NewClientEntry ==
    [][DoUpdateStep /\ Fetched =>
         \A m \in DOMAIN Snapshot \ InStore(db) :
            /\ events'[m]["new"] = 1
            /\ Len(db'.rows[m]) = 1
            /\ db'.rows[m][1].first_seen = now
            /\ db'.rows[m][1].notes = ""]_vars

\* The value a column holds after do_update, for a MAC with one entry before.
Differs(m, f) ==
    IF f = "expiry" THEN PyNeNum(Snapshot[m][f], db.rows[m][1][f])
    ELSE PyNeText(Snapshot[m][f], db.rows[m][1][f])
Written(m, f) ==
    IF f = "expiry" THEN SqlInt(Snapshot[m][f]) ELSE SqlText(Snapshot[m][f])

\* C6: for every MAC in the snapshot and in the store, do_update emits exactly one
\* field-changed event for each of hostname, IP and expiry that differs and writes
\* that field; a field that does not differ is neither written nor reported.
C6_FieldEvents ==
    [][DoUpdateStep /\ Fetched =>
         \A m \in DOMAIN Snapshot \cap InStore(db) : \A f \in {"hostname", "IP", "expiry"} :
            /\ events'[m][f] = IF Differs(m, f) THEN 1 ELSE 0
            /\ Len(db'.rows[m]) = 1
            /\ db'.rows[m][1][f] = IF Differs(m, f) THEN Written(m, f)
                                   ELSE db.rows[m][1][f]]_vars

Frame(row) == <<row.first_seen, row.notes, row.MACOUI>>

\* Every entry of t that t2 still holds has its first_seen, notes and MACOUI.
FrameKept(t, t2) ==
    \A m \in MACS : \A i \in DOMAIN t.rows[m] \cap DOMAIN t2.rows[m] :
        Frame(t2.rows[m][i]) = Frame(t.rows[m][i])

\* C7: do_update leaves first_seen, notes and MACOUI of every entry as they were, in
\* the connection's view and in the committed table, which loses no entry.
C7_FrameFieldsKept ==
    [][DoUpdateStep =>
         /\ FrameKept(db, db')
         /\ FrameKept(disk, disk')
         /\ \A m \in MACS : Len(disk.rows[m]) <= Len(disk'.rows[m])]_vars

\* A reconcile has updated the hostname of an entry that carries a note.
C7_Witness ==
    /\ last = "committed"
    /\ \E m \in MACS :
          /\ events[m]["hostname"] = 1
          /\ db.rows[m] # <<>>
          /\ db.rows[m][1].notes # "-"

\* C8: a MAC in the store and absent from the snapshot keeps its entry unchanged through
\* do_update and gets no event.
C8_AbsentUntouched ==
    [][DoUpdateStep /\ Fetched =>
         \A m \in InStore(db) \ DOMAIN Snapshot :
            /\ db'.rows[m] = db.rows[m]
            /\ events'[m] = NoEvents[m]]_vars

\* A reconcile has run to its commit while an entry's MAC was not in the snapshot, and
\* has reported another client.
C8_Witness ==
    /\ last = "committed"
    /\ \E m \in InStore(db) \ DOMAIN Snapshot :
       \E n \in MACS \ {m} : events[n] # NoEvents[n]

\* The writes of the do_update of this step are in the store afterwards: it has
\* committed them, or its connection is still open.
Stored == last' = "committed" \/ (Fetched /\ pc' = "service")

\* C9: a client whose expiry is 0 in the snapshot is stored with expiry 0 and read back
\* as 0, when it is inserted and when its entry's expiry changes to 0; a stored 0
\* against a snapshot's 0 is not reported as a change.
C9_StaticLeaseKept ==
    [][DoUpdateStep /\ Fetched =>
         \A m \in DOMAIN Snapshot :
            Snapshot[m].expiry.v = 0 =>
               /\ Stored /\ (events'[m]["new"] > 0 \/ events'[m]["expiry"] > 0) =>
                     /\ db'.rows[m] # <<>>
                     /\ \A i \in DOMAIN db'.rows[m] : db'.rows[m][i].expiry = 0
                     /\ get_database_clients(db'.rows)[m].expiry = 0
               /\ (m \in InStore(db) /\ get_database_clients(db.rows)[m].expiry = 0) =>
                     events'[m]["expiry"] = 0]_vars

\* An entry's expiry has been changed to 0 by a reconcile.
C9_Witness ==
    /\ last = "committed"
    /\ \E m \in MACS :
          /\ events[m]["expiry"] = 1
          /\ leases[m].present
          /\ leases[m].expiry = 0
          /\ db.rows[m] # <<>>
          /\ db.rows[m][1].expiry = 0

\* C10: the table holds at most one row per MAC, in the connection's view and
\* committed.
C10_OneRowPerMac ==
    \A m \in MACS : Len(db.rows[m]) <= 1 /\ Len(disk.rows[m]) <= 1

\* A reconcile has met a client that had an entry, and the table holds that one entry.
C10_Witness ==
    /\ last = "committed"
    /\ \E m \in DOMAIN Snapshot :
          /\ events[m]["new"] = 0
          /\ Len(db.rows[m]) = 1
          /\ Len(disk.rows[m]) = 1

\* C11: when two instances reconcile at once and both have read a snapshot MAC as
\* absent from the store, the store ends with exactly one entry for that MAC,
\* whatever the interleaving of their reads, inserts and commits.
C11_ConcurrentInsertOnce ==
    \A m \in MACS :
        (\A p \in Procs : /\ procs[p].why = "done"
                          /\ m \in DOMAIN procs[p].recs
                          /\ m \notin DOMAIN procs[p].dbc)
        => Len(disk.rows[m]) = 1

\* C12: the INSERT of db_add_client for a MAC that has an entry in the store is
\* rejected: the table gets no second row for that MAC.
C12_DuplicateInsertRejected ==
    [][\A m \in MACS :
          db.rows[m] # <<>> => Len(db'.rows[m]) <= Len(db.rows[m])]_vars

\* C13: a failed vendor lookup (another status than 200, or requests.get raising)
\* does not keep a client out of the store: after a do_update that obtained the
\* snapshot, every MAC of the snapshot has an entry.
C13_LookupFailureStillInserts ==
    [][DoUpdateStep /\ Fetched => \A m \in DOMAIN Snapshot : db'.rows[m] # <<>>]_vars

\* The vendor fields an entry may hold: the vendor service's text or the sentinel.
Vendors == {VendorText, "--none--"}
Populated(t) ==
    \A m \in MACS : \A i \in DOMAIN t.rows[m] : t.rows[m][i].MACOUI \in Vendors

\* C16: every entry of the table, in the connection's view and committed, has its
\* vendor field populated with the vendor's text or the sentinel "--none--".
C16_VendorPopulated == Populated(db) /\ Populated(disk)

\* A reconcile has committed one new entry with the vendor's text and another with
\* the sentinel.
C16_Witness ==
    /\ last = "committed"
    /\ \E m \in MACS : \E n \in MACS :
          /\ events[m]["new"] = 1 /\ events[n]["new"] = 1
          /\ Len(disk.rows[m]) = 1 /\ disk.rows[m][1].MACOUI = VendorText
          /\ Len(disk.rows[n]) = 1 /\ disk.rows[n][1].MACOUI = "--none--"

\* C17: a SIGINT or SIGTERM that arrives while an instance is in do_update's loop
\* does not end the process there: the instance leaves the loop only by its own
\* return.
C17_SignalWaitsForReconcile ==
    [][\A p \in Procs :
          procs[p].pc = "loop" => ~(procs'[p].pc = "off" /\ procs'[p].why = "signal")]_vars

\* C20: a one-shot --update whose do_update has failed, at the source or in the
\* loop, has not exited with the code of success.
C20_FailedUpdateExitsNonZero ==
    (pc = "off" /\ last \in SourceFailed \cup {"aborted"}) => exit_code # EXIT_GOOD

\* C15: a reconcile sends a vendor lookup only for a MAC that has no entry in the
\* store and that has not been looked up since its entry was last deleted.
C15_LookupOncePerMac ==
    [][DoUpdateStep =>
         \A m \in MACS :
            lookups'[m] > lookups[m] => (db.rows[m] = <<>> /\ lookups[m] = 0)]_vars

\* C14: in one process no request goes to the vendor service less than 0.6 s after
\* the request before it, so the N-th request is at least (N-1) * 0.6 s after the
\* first; and a call that finds the gate closed waits in lookup_MAC.
C14_MinSpacing ==
    [][/\ (gate.sent # <<>> /\ Len(gate'.sent) > Len(gate.sent)) =>
            /\ gate'.clock - gate.sent[Len(gate.sent)] >= MinSpacing
            /\ gate'.clock - gate.sent[1] >= Len(gate.sent) * MinSpacing
       /\ (gate.pc = "wait" /\ gate.clock <= gate.next_lookup) =>
            /\ gate'.pc = "wait"
            /\ gate'.sent = gate.sent]_vars

\* Three requests have been sent, the third by a call that arrived while the gate was
\* closed and went through as soon as it opened.
C14_Witness ==
    /\ Len(gate.sent) = 3
    /\ gate.pc = "request"
    /\ gate.clock = gate.next_lookup + 1
    /\ gate.sent[3] = gate.clock

\* A turn of the service loop: its sleep, or the exception that ends it, moves the
\* clock.
TurnStep == svc.pc = "loop" /\ svc'.clock > svc.clock

\* C18: a turn of the service loop that finds the config file changed and reloads it
\* invokes do_update in that turn, with the configuration just loaded.
C18_ReloadRunsUpdateAtOnce ==
    [][TurnStep /\ svc'.reload = "loaded" =>
          svc'.ran /\ svc'.used = svc'.loaded]_vars

\* The turn meets a config file that has changed and cannot be loaded as it is:
\* gone, not readable, or with a line that does not parse.
FailedReload ==
    \/ svc.file.state = "missing"
    \/ svc.file.mtime # svc.stamp /\ svc.file.state \in {"bad", "unreadable"}

\* C19: a turn whose reload fails leaves the loaded configuration values as they
\* were and the service loop running.
C19_FailedReloadKeepsConfig ==
    [][TurnStep /\ FailedReload =>
          svc'.pc = "loop" /\ svc'.loaded = svc.loaded]_vars

\* C23: every change event of a reconcile is notified by exactly one call of the
\* notification collaborator, made by the caller of do_update and not inside it.
C23_CallerNotifiesEachEvent ==
    \A m \in MACS : \A k \in Kinds :
        /\ CallerNotifs(events)[m][k] = events[m][k]
        /\ EngineNotifs(events)[m][k] = 0

\* The entry of m holds the values of the record rec of the snapshot, as Python's
\* == compares them.
HoldsRecord(row, rec) ==
    /\ ~PyNeText(rec.hostname, row.hostname)
    /\ ~PyNeText(rec.IP, row.IP)
    /\ ~PyNeNum(rec.expiry, row.expiry)

\* C30: after a do_update that ran to its commit, every MAC of the snapshot has an
\* entry whose hostname, IP and expiry equal the snapshot's values for that MAC.
C30_StoreEqualsSnapshot ==
    [][DoUpdateStep /\ last' = "committed" =>
         \A m \in DOMAIN Snapshot :
            /\ db'.rows[m] # <<>>
            /\ \A i \in DOMAIN db'.rows[m] : HoldsRecord(db'.rows[m][i], Snapshot[m])]_vars

C22_RecreateFromSnapshot ==
    (op.name = "create-db" /\ op.kind = "return" /\ op.resp = "ok") =>
        /\ op.after.exists
        /\ \A m \in MACS \ DOMAIN op.recs : op.after.rows[m] = <<>>
        /\ \A m \in DOMAIN op.recs :
              /\ Len(op.after.rows[m]) = 1
              /\ m \in op.asked
              /\ op.after.rows[m][1].MACOUI \in Vendors
              /\ op.after.rows[m][1].first_seen = op.at
              /\ op.after.rows[m][1].notes = "-"

\* The run has inserted an entry for m: a row stamped with the time of this run.
Created(m) ==
    /\ op.name \in {"bootstrap", "create-db", "update"}
    /\ \E i \in DOMAIN op.after.rows[m] : op.after.rows[m][i].first_seen = op.at

\* The MAC had no entry when the run inserted one: --create-db has dropped the table.
AbsentBefore(m) == op.name = "create-db" \/ op.before.rows[m] = <<>>

\* C24 as stated: an entry is created, by do_update or by db_connect's first
\* population, only for a MAC of the snapshot that has no entry, with a vendor lookup
\* and a new-client event for that MAC.
C24_CreationWithEvent ==
    \A m \in MACS :
        Created(m) => /\ m \in DOMAIN op.recs
                      /\ AbsentBefore(m)
                      /\ m \in op.asked
                      /\ op.events[m]["new"] = 1

\* C24 as amended: an entry is created only for a MAC of the snapshot that has no
\* entry, with a vendor lookup for that MAC; do_update reports it as a new client
\* once, db_connect's population of the new table reports nothing.
C24_CreationWithLookup ==
    \A m \in MACS :
        Created(m) => /\ m \in DOMAIN op.recs
                      /\ AbsentBefore(m)
                      /\ m \in op.asked
                      /\ op.events[m]["new"] = IF op.name = "update" THEN 1 ELSE 0

\* An --update has inserted an entry next to one that the population of the table
\* had inserted.
C24_Witness ==
    /\ op.name = "update"
    /\ \E m \in MACS : \E n \in MACS \ {m} :
          /\ Created(m)
          /\ op.events[m]["new"] = 1
          /\ Len(op.before.rows[n]) = 1
          /\ op.before.rows[n][1].first_seen < op.at

\* The entries of every MAC but m are what they were before the run.
OthersKept(m) == \A n \in MACS \ {m} : op.after.rows[n] = op.before.rows[n]

\* The run was given a MAC that has exactly one entry.
OneEntry == op.MAC \in MACS /\ Len(op.before.rows[op.MAC]) = 1

\* No --MAC, or a MAC without an entry.
NoEntry == op.MAC = PyNone \/ op.before.rows[op.MAC] = <<>>

C28_NoEntryReached == op.name = "add-note" /\ NoEntry /\ op.before.rows # NoRows
C29_NoEntryReached == op.name = "delete" /\ NoEntry /\ op.before.rows # NoRows

\* The canonical form of a MAC: lower-case hex digits, colon-delimited.
Canonical(k) == k \in MACS

\* Two keys spell one hardware address.
SameAddress(k, n) == \E m \in MACS : {k, n} \subseteq {m, UpperCase(m)}

\* C25: every key of the mapping that get_dhcp_clients returns, from either backend,
\* is a MAC in canonical form, and no two keys spell one hardware address.
C25_KeysCanonical ==
    fetch.kind = "return" =>
        /\ \A k \in DOMAIN fetch.recs : Canonical(k)
        /\ \A k, n \in DOMAIN fetch.recs : SameAddress(k, n) => k = n

\* The cell of the row under the j-th header is missing or holds no text.
BlankCell(row, j) == j \notin DOMAIN row \/ row[j] = PyNone \/ Strip(row[j]) = ""

\* C26: the scraper returns one record for each row of the page, and a cell that is
\* blank or missing gives the empty string for its field in that record.
C26_BlankCellIsEmptyString ==
    Lower(cfg.DHCP_SERVER_TYPE) = "pfsense" /\ fetch.kind # "none" =>
        /\ Len(fetch.list) = Len(fetch.sent)
        /\ \A i \in DOMAIN fetch.sent : \A j \in DOMAIN headers :
              BlankCell(fetch.sent[i], j) =>
                 /\ headers[j] \in DOMAIN fetch.list[i]
                 /\ fetch.list[i][headers[j]] = ""

\* The record that a line of the lease file stands for.
LineRecord(line) ==
    [hostname |-> line[4], IP |-> line[3], expiry |-> PyInt(IntOf(line[1]))]

\* The last line of the file that matches the pattern and has the MAC k.
LastLine(lines, k) ==
    lines[CHOOSE i \in DOMAIN lines :
             /\ LineReMatch(lines[i]) /\ lines[i][2] = k
             /\ \A j \in DOMAIN lines :
                   (LineReMatch(lines[j]) /\ lines[j][2] = k) => j <= i]

\* C27: with the dd-wrt backend get_dhcp_clients returns whatever lines do not
\* match the pattern; every line that matches has its MAC in the mapping, with the
\* record of the last matching line for that MAC, and the mapping has no other key.
C27_BogusLineSkipped ==
    Lower(cfg.DHCP_SERVER_TYPE) = "dd-wrt" /\ fetch.kind # "none" =>
        /\ fetch.kind = "return"
        /\ \A i \in DOMAIN fetch.sent :
              LineReMatch(fetch.sent[i]) =>
                 /\ fetch.sent[i][2] \in DOMAIN fetch.recs
                 /\ fetch.recs[fetch.sent[i][2]] =
                        LineRecord(LastLine(fetch.sent, fetch.sent[i][2]))
        /\ \A k \in DOMAIN fetch.recs :
              \E i \in DOMAIN fetch.sent : LineReMatch(fetch.sent[i]) /\ fetch.sent[i][2] = k

\* A file with a line of other text between two leases of one MAC that differ in
\* their address: the mapping holds the second.
C27_Witness ==
    /\ fetch.kind = "return"
    /\ Len(fetch.sent) = 3
    /\ LineReMatch(fetch.sent[1])
    /\ fetch.sent[2] = <<"garbage">>
    /\ LineReMatch(fetch.sent[3])
    /\ fetch.sent[1][3] # fetch.sent[3][3]
    /\ fetch.recs[FirstMAC].IP = fetch.sent[3][3]

\* The DHCP server did not give the run its clients: the scraper exited or raised,
\* or ssh failed and left no line.
SourceDown == op.kind # "return" \/ op.resp # "ok"

\* C35 as stated: when the source fails during --create-db on a database that has
\* the table, the entries that were in the table are still there afterwards.
C35_FailedRecreateKeepsEntries ==
    (op.name = "create-db" /\ op.before.exists /\ SourceDown) => op.after = op.before

\* C35 as amended: when the source fails during --create-db on a database that has
\* the table, the table has been dropped before the server was asked: afterwards no
\* entry is left, and no table unless the failed fetch returned an empty mapping.
C35_FailedRecreateDropsEntries ==
    (op.name = "create-db" /\ op.before.exists /\ SourceDown) =>
        /\ op.after.rows = NoRows
        /\ op.kind # "return" => ~op.after.exists

\* --create-db has met a server that does not answer, on a table with an entry.
C35_Witness ==
    /\ op.name = "create-db"
    /\ SourceDown
    /\ op.before.exists
    /\ op.before.rows # NoRows
    /\ op.after.rows = NoRows

\* C36: between two deletions of a MAC at most one "New LAN client found"
\* notification is sent for it: of two --update runs in succession, the second sends
\* none for a MAC for which the first has sent one.
C36_OneNewClientNotification ==
    [][\A m \in MACS :
          (op.name = "update" /\ op'.name = "update" /\ op' # op
           /\ EngineNotifs(op.events)[m]["new"] > 0)
          => EngineNotifs(op'.events)[m]["new"] = 0]_vars

\* C40: after db_connect() on a database without the table, whatever ended it, there
\* is no table or the table holds an entry for every MAC of the snapshot that
\* db_connect() fetched.
C40_PopulationAllOrNothing ==
    op.name = "bootstrap" =>
        \/ ~op.after.exists
        \/ \A m \in DOMAIN op.recs : op.after.rows[m] # <<>>

\* C38: when snd_notif raises for a new client, do_update goes on: the client's
\* entry and the entries of the other MACs of the snapshot are in the table that
\* the run has committed.
C38_FailedNotificationGoesOn ==
    op.name = "update" =>
        \A m \in MACS :
            op.events[m]["unsent"] > 0 =>
               /\ Len(op.after.rows[m]) = 1
               /\ \A n \in DOMAIN op.recs : op.after.rows[n] # <<>>

\* A call of p has returned in this step.
Returns(p, call) == lock'.last # lock.last /\ lock'.last.who = p /\ lock'.last.call = call

\* The return of the requestlock that found no lock file and went on to create it.
CreateStep(p) == lock.p[p].pc = "open" /\ Returns(p, "requestlock")

\* The return of a requestlock from its loop with the lock file there.
GiveUpStep(p) == lock.p[p].pc = "test" /\ Returns(p, "requestlock")

\* requestlock gives up only when the time is up, and then returns -1 and leaves
\* the lock file and the holder written in it as they are.
TimeoutKept ==
    \A p \in Procs :
        /\ GiveUpStep(p) => /\ lock'.last.ret = 0 - 1
                            /\ lock.clock - (lock.p[p].xx - LockTimeout) > LockTimeout
                            /\ lock'.file = lock.file
        /\ (lock.p[p].pc = "test" /\ lock.file.exists
             /\ lock.clock - (lock.p[p].xx - LockTimeout) <= LockTimeout)
           => lock'.p[p].pc # "idle"

\* releaselock returns 0 exactly when it removed the lock file, and a releaselock
\* that follows one that returned 0 returns -1.
ReleaseKept ==
    \A p \in Procs :
        Returns(p, "releaselock") =>
            /\ lock'.last.ret = 0 <=> (lock.file.exists /\ ~lock'.file.exists)
            /\ (lock.last.call = "releaselock" /\ lock.last.ret = 0)
               => lock'.last.ret = 0 - 1

\* C31 as stated: requestlock returns 0 and creates the lock file when the file does
\* not exist; with the file there and not released it returns -1, not before the
\* timeout has elapsed, and leaves the file and its holder as they are; releaselock
\* returns 0 exactly when it removed the file, so that a second release in a row
\* returns -1.
C31_LockCalls ==
    [][/\ \A p \in Procs :
             CreateStep(p) => /\ lock'.last.ret = 0
                              /\ lock'.file = [exists |-> TRUE, by |-> p]
       /\ TimeoutKept
       /\ ReleaseKept]_vars

\* C31 as amended: requestlock, when the file does not exist, creates it and returns
\* 0 if the file can be created, and returns -1 and creates nothing if it cannot;
\* the rest as stated.
C31_LockCallsWhenWritable ==
    [][/\ \A p \in Procs :
             CreateStep(p) => \/ /\ lock'.last.ret = 0
                                 /\ lock'.file = [exists |-> TRUE, by |-> p]
                              \/ /\ lock'.last.ret = 0 - 1
                                 /\ lock'.file = lock.file
       /\ TimeoutKept
       /\ ReleaseKept]_vars

\* One process holds the lock file and the other has given up after its timeout.
C31_Witness ==
    /\ lock.last.call = "requestlock"
    /\ lock.last.ret = 0 - 1
    /\ lock.file.exists
    /\ lock.file.by # lock.last.who
    /\ lock.clock - (lock.p[lock.last.who].xx - LockTimeout) > LockTimeout

\* C34: of two processes that call requestlock on one lock file, at most one is
\* returned 0 before a releaselock removes the file.
C34_MutualExclusion == Cardinality(lock.held) <= 1

\* A call of loadconfig in this step.
LoadStep == conf'.calls = conf.calls + 1

\* The file is there, and it is as it was at the last load.
SameFile == conf.file.state # "missing" /\ conf.file.mtime = conf.stamp

\* C32: a loadconfig without force_flush_reload on a file whose modification time is
\* the recorded one returns False and leaves the dictionary as it is, with the keys
\* put into it since the last load, with and without flush_on_reload; and loadconfig
\* returns True exactly when it has read the file: the file is there and readable
\* and has changed or the reload is forced.
C32_UnchangedFileNotReloaded ==
    [][LoadStep =>
         /\ (SameFile /\ ~conf'.force_flush_reload) =>
                (conf'.ret = "False" /\ conf'.cfg = conf.cfg)
         /\ conf'.ret = "True" <=>
                (conf.file.state = "ok" /\ (~SameFile \/ conf'.force_flush_reload))]_vars

\* loadconfig with flush_on_reload has returned False on the unchanged file while
\* the dictionary holds a key that the file does not define.
C32_Witness ==
    /\ conf.ret = "False"
    /\ conf.flush_on_reload
    /\ conf.calls >= 2
    /\ conf.file.state = "ok"
    /\ "dummy" \in DOMAIN conf.cfg
    /\ "dummy" \notin DOMAIN conf.file.content

\* C33: a loadconfig that reloads leaves, with flush_on_reload, exactly the keys of
\* the file in the dictionary, and without it the file's keys over the keys that
\* were there; with force_flush_reload the dictionary is cleared and the file read
\* whether it has changed or not.
C33_FlushOnReload ==
    [][LoadStep =>
         /\ conf'.ret = "True" =>
               /\ \A k \in DOMAIN conf.file.content :
                     k \in DOMAIN conf'.cfg /\ conf'.cfg[k] = conf.file.content[k]
               /\ (conf'.flush_on_reload \/ conf'.force_flush_reload) =>
                     DOMAIN conf'.cfg = DOMAIN conf.file.content
               /\ ~(conf'.flush_on_reload \/ conf'.force_flush_reload) =>
                     /\ DOMAIN conf'.cfg = DOMAIN conf.cfg \cup DOMAIN conf.file.content
                     /\ \A k \in DOMAIN conf.cfg \ DOMAIN conf.file.content :
                           conf'.cfg[k] = conf.cfg[k]
         /\ (conf'.force_flush_reload /\ conf.file.state = "ok") =>
               (conf'.ret = "True" /\ conf'.cfg = conf.file.content)]_vars

\* A forced reload of a file that was never edited has removed a key that the
\* program had put into the dictionary after the first load.
C33_Witness ==
    /\ conf.ret = "True"
    /\ conf.force_flush_reload
    /\ conf.calls = 2
    /\ conf.edits = 0
    /\ conf.stamp = conf.file.mtime
    /\ conf.cfg = conf.file.content

C37_ReconcilesAnIntervalApart ==
    [][(TurnStep /\ svc'.ran /\ svc.start >= 0 /\ ~svc'.reloaded /\ ~svc.reloaded
        /\ svc'.reload = "same")
       => svc'.start - svc.start >= Value(svc.loaded)]_vars

====
